---- MODULE Spec2Model ----
(***************************************************************************)
(* imdbarr: the extraction-and-resolution pipeline of src/src/tvdb.ts.     *)
(*   - fetchIMDBList        (PageAggregator)      specification SpecFetch  *)
(*   - resolveIMDBToTVDB, the TTL cache, clearCache             SpecResolve*)
(*   - convertToSonarrFormat (BatchConverter)                   SpecConvert*)
(*   - parseIMDBListPage    (RecordExtractor)                   SpecParse  *)
(*   - fetchIMDBList or parseIMDBListPage                  SpecCollections  *)
(*   - parseListId, buildListUrl, the URL of a page fetch       SpecListId  *)
(*   - parseIMDBType        (TypeClassifier)                    SpecType   *)
(* Every specification moves its own variables and leaves the others alone.*)
(***************************************************************************)
EXTENDS Integers, Sequences, FiniteSets, TLC

VARIABLES
  \* fetchIMDBList
  fpc, reference, options, srcSize, pending, fetchLog, recvLog, totalItems, effectiveTotal,
  totalPages, allItems, seenIds, currentPage, addedLast, fresult, ferror,
  \* parseIMDBListPage; the three notes say that a linked-data entry without a
  \* type met a typed item, that one replaced a concrete type, and that an
  \* anchor met an untyped item of the blob
  ppc, items, pageSeenIds, pstep, ldKeptConcrete, ldOverwroteConcrete,
  anchorMetBlobItem, blobFailed,
  \* the TTL cache, the clock and the credential
  cache, now, apiKeySet,
  \* direct calls of resolveIMDBToTVDB and what an observer notes about the cache
  calls, lastOk, flushedIds,
  \* convertToSonarrFormat; overtaken notes a resolution that returned while
  \* one of an earlier item of its batch was awaiting a request
  cpc, citems, ci, cresults, cres, overtaken,
  \* the reference of the latest fetchIMDBList call and the URL of its first fetch
  listIdOrUrl, requestedPage, listInfo, finalUrl, lerror,
  \* the latest parseIMDBType call
  tpc, metadata, itemType

fvars == <<fpc, reference, options, srcSize, pending, fetchLog, recvLog, totalItems,
           effectiveTotal, totalPages, allItems, seenIds, currentPage, addedLast,
           fresult, ferror>>

pvars == <<ppc, items, pageSeenIds, pstep, ldKeptConcrete, ldOverwroteConcrete, anchorMetBlobItem, blobFailed>>

svars == <<cache, now, apiKeySet>>

rvars == <<calls, lastOk, flushedIds>>

cvars == <<cpc, citems, ci, cresults, cres, overtaken>>

lvars == <<listIdOrUrl, requestedPage, listInfo, finalUrl, lerror>>

tvars == <<tpc, metadata, itemType>>

vars == <<fvars, pvars, svars, rvars, cvars, lvars, tvars>>

\* What the steps of one operation leave alone: the other operations' variables.
notFetch == <<pvars, svars, rvars, cvars, lvars, tvars>>
notParse == <<fvars, svars, rvars, cvars, lvars, tvars>>
notResolve == <<fvars, pvars, cvars, lvars, tvars>>
notConvert == <<fvars, pvars, rvars, lvars, tvars>>
notListId == <<fvars, pvars, svars, rvars, cvars, tvars>>
notType == <<fvars, pvars, svars, rvars, cvars, lvars>>

----------------------------------------------------------------------------
\* Bounds of the model.

\* The paged source holds at most MaxSourcePages full pages.
MaxSourcePages == 4
\* The length of a page that is not full.
PartialPage == 100
\* The largest page number a caller asks for explicitly.
MaxRequestPage == 2
\* The primary ids that occur in the markup of one page.
NumPageIds == 2
\* The elements (blob nodes, anchors, linked-data entries) one pass meets.
MaxElems == 2
\* The primary ids that direct callers of resolveIMDBToTVDB ask for.
NumImdbIds == 1
\* The distinct primary ids in a list handed to convertToSonarrFormat.
NumListIds == 2
\* The direct calls of resolveIMDBToTVDB that are open at the same time.
MaxCalls == 2
\* The clock advances MaxTicks times, half a TTL each time.
MaxTicks == 3
\* The longest list handed to convertToSonarrFormat.
MaxConvertItems == 6
\* The longest reference that is not a URL.
MaxInputLen == 4
\* The pieces a metadata text is made of.
MaxPieces == 3

----------------------------------------------------------------------------
\* Program constants.

ITEMS_PER_PAGE == 250

\* stdTTL of the cache (line 13), in seconds.
StdTTL == 86400

\* batchSize of convertToSonarrFormat (line 128).
batchSize == 5

\* A JavaScript undefined where the code expects a number (maxItems, page).
Undefined == -1

Min(a, b) == IF a < b THEN a ELSE b

\* Math.floor in the place of Math.ceil.
CeilAsFloor(a, b) == a \div b

\* Math.ceil(a / b) for a >= 0, b > 0.
Ceil(a, b) == (a + b - 1) \div b

\* JavaScript truthiness of an optional number: undefined and 0 are falsy.
Truthy(n) == n # Undefined /\ n # 0

----------------------------------------------------------------------------
\* Strings the code inspects are sequences of characters.

UpperLower ==
  [c \in {"E", "M", "S", "T", "V", "W"} |->
     CASE c = "E" -> "e" [] c = "M" -> "m" [] c = "S" -> "s"
       [] c = "T" -> "t" [] c = "V" -> "v" [] c = "W" -> "w"]

\* String.prototype.toLowerCase
Lower(str) ==
  [j \in 1..Len(str) |->
     IF str[j] \in DOMAIN UpperLower THEN UpperLower[str[j]] ELSE str[j]]

\* String.prototype.includes
Includes(str, sub) ==
  \E j \in 0..(Len(str) - Len(sub)) : SubSeq(str, j + 1, j + Len(sub)) = sub

\* String.prototype.trim, for spaces.
Trim(str) ==
  LET solid == {j \in 1..Len(str) : str[j] # " "}
  IN IF solid = {} THEN << >>
     ELSE SubSeq(str, CHOOSE j \in solid : \A k \in solid : j <= k,
                      CHOOSE j \in solid : \A k \in solid : j >= k)

\* String.prototype.startsWith
StartsWith(str, pre) == Len(str) >= Len(pre) /\ SubSeq(str, 1, Len(pre)) = pre

Digits == {"0", "1", "2", "3", "4", "5", "6", "7", "8", "9"}

\* /^<pre>\d*$/.test(str)
PrefixThenAnyDigits(str, pre) ==
  /\ StartsWith(str, pre)
  /\ \A j \in (Len(pre) + 1)..Len(str) : str[j] \in Digits

\* /^<pre>\d+$/.test(str)
PrefixThenDigits(str, pre) ==
  /\ StartsWith(str, pre)
  /\ Len(str) > Len(pre)
  /\ \A j \in (Len(pre) + 1)..Len(str) : str[j] \in Digits

\* The null of parseListId.
NoListInfo == [type |-> "none", id |-> << >>]

\* A parseListId that takes every input for a list id.
parseListIdAnything(input) == [type |-> "list", id |-> Trim(input)]

\* str.match(/<marker>(<pre>\d+)/): the first place where marker, pre and a
\* digit follow each other, and the id captured there; << >> without a match.
EmbeddedId(str, marker, pre) ==
  LET lead == marker \o pre
      starts == {j \in 1..(Len(str) - Len(lead)) :
                   /\ SubSeq(str, j, j + Len(lead) - 1) = lead
                   /\ str[j + Len(lead)] \in Digits}
  IN IF starts = {} THEN << >>
     ELSE LET at == CHOOSE j \in starts : \A k \in starts : j <= k
              from == at + Len(marker)
              last == CHOOSE e \in (at + Len(lead))..Len(str) :
                        /\ \A k \in (at + Len(lead))..e : str[k] \in Digits
                        /\ (e = Len(str) \/ str[e + 1] \notin Digits)
          IN SubSeq(str, from, last)

\* A parseListId that reduces a URL to the user or list id in its path.
parseListIdReducing(input) ==
  LET in == Trim(input)
      user == EmbeddedId(in, <<"/","u","s","e","r","/">>, <<"u","r">>)
      list == EmbeddedId(in, <<"/","l","i","s","t","/">>, <<"l","s">>)
  IN IF Includes(in, <<"i","m","d","b",".","c","o","m">>) /\ user # << >>
     THEN [type |-> "user", id |-> user]
     ELSE IF Includes(in, <<"i","m","d","b",".","c","o","m">>) /\ list # << >>
     THEN [type |-> "list", id |-> list]
     ELSE IF PrefixThenDigits(in, <<"u","r">>) THEN [type |-> "user", id |-> in]
     ELSE IF PrefixThenDigits(in, <<"l","s">>) THEN [type |-> "list", id |-> in]
     ELSE NoListInfo

\* parseListId (lines 209-227).
parseListId(input) ==
  LET in == Trim(input)
  IN IF Includes(in, <<"i","m","d","b",".","c","o","m">>)
     THEN [type |-> "url", id |-> in]
     ELSE IF PrefixThenDigits(in, <<"u","r">>) THEN [type |-> "user", id |-> in]
     ELSE IF PrefixThenDigits(in, <<"l","s">>) THEN [type |-> "list", id |-> in]
     ELSE NoListInfo

\* The characters of the references that are not URLs.
ListIdChars == {"u", "r", "l", "s", "1", "x", " "}

\* The strings over ListIdChars of length n.
RECURSIVE StringsOf(_)
StringsOf(n) ==
  IF n = 0 THEN {<< >>}
  ELSE {Append(str, c) : str \in StringsOf(n - 1), c \in ListIdChars}

ShortInputs == UNION {StringsOf(n) : n \in 0..MaxInputLen}

IMDB_BASE_URL ==
  <<"h","t","t","p","s",":","/","/","w","w","w",".","i","m","d","b",".","c","o","m">>

\* buildListUrl (lines 232-240).
buildListUrl(info) ==
  IF info.type = "url" THEN info.id
  ELSE IF info.type = "user"
  THEN IMDB_BASE_URL \o <<"/","u","s","e","r","/">> \o info.id
         \o <<"/","w","a","t","c","h","l","i","s","t","?","v","i","e","w","=",
              "d","e","t","a","i","l">>
  ELSE IMDB_BASE_URL \o <<"/","l","i","s","t","/">> \o info.id
         \o <<"?","v","i","e","w","=","d","e","t","a","i","l">>

\* The first position of character c in str, 0 when it has none.
IndexOf(str, c) ==
  IF \E j \in 1..Len(str) : str[j] = c
  THEN CHOOSE j \in 1..Len(str) : str[j] = c /\ \A k \in 1..(j - 1) : str[k] # c
  ELSE 0

\* str.split(c)
RECURSIVE Split(_, _)
Split(str, c) ==
  LET at == IndexOf(str, c)
  IN IF at = 0 THEN <<str>>
     ELSE <<SubSeq(str, 1, at - 1)>> \o Split(SubSeq(str, at + 1, Len(str)), c)

\* The parts joined with the separator sep between them.
RECURSIVE Join(_, _)
Join(parts, sep) ==
  IF Len(parts) = 0 THEN << >>
  ELSE IF Len(parts) = 1 THEN parts[1]
  ELSE parts[1] \o sep \o Join(Tail(parts), sep)

\* String(n) for n >= 0.
RECURSIVE StringOfNumber(_)
StringOfNumber(n) ==
  LET digit == [d \in 0..9 |->
                  CASE d = 0 -> "0" [] d = 1 -> "1" [] d = 2 -> "2" [] d = 3 -> "3"
                    [] d = 4 -> "4" [] d = 5 -> "5" [] d = 6 -> "6" [] d = 7 -> "7"
                    [] d = 8 -> "8" [] d = 9 -> "9"]
  IN IF n < 10 THEN <<digit[n]>>
     ELSE Append(StringOfNumber(n \div 10), digit[n % 10])

\* The schemes of the URLs callers write.
Schemes == {<<"h","t","t","p","s",":","/","/">>, <<"h","t","t","p",":","/","/">>}

\* new URL(str) succeeds on an absolute URL: a scheme, then a host.
IsAbsoluteUrl(str) ==
  \E scheme \in Schemes :
    /\ StartsWith(str, scheme)
    /\ Len(str) > Len(scheme)
    /\ str[Len(scheme) + 1] \notin {"/", "?", " "}

\* One name=value of a query; a part without = has the empty value.
ParamOf(part) ==
  LET at == IndexOf(part, "=")
  IN IF at = 0 THEN [name |-> part, value |-> << >>]
     ELSE [name |-> SubSeq(part, 1, at - 1),
           value |-> SubSeq(part, at + 1, Len(part))]

\* new URL(str) for an absolute URL: what precedes the query, with the path /
\* when str names none, and the parameters of the query in their order.
ParseUrl(str) ==
  LET scheme == CHOOSE sc \in Schemes : StartsWith(str, sc)
      mark == IndexOf(str, "?")
      front == IF mark = 0 THEN str ELSE SubSeq(str, 1, mark - 1)
      query == IF mark = 0 THEN << >> ELSE SubSeq(str, mark + 1, Len(str))
      rest == SubSeq(front, Len(scheme) + 1, Len(front))
      parts == IF query = << >> THEN << >> ELSE Split(query, "&")
  IN [front |-> IF IndexOf(rest, "/") = 0 THEN Append(front, "/") ELSE front,
      searchParams |-> [j \in 1..Len(parts) |-> ParamOf(parts[j])]]

\* url.searchParams.has(name)
SearchParamsHas(params, name) == \E j \in 1..Len(params) : params[j].name = name

\* url.searchParams.set(name, value): the first parameter of that name takes
\* the value and the others of that name go; without one it is appended.
SearchParamsSet(params, name, value) ==
  IF SearchParamsHas(params, name)
  THEN LET first == CHOOSE j \in 1..Len(params) :
                      /\ params[j].name = name
                      /\ \A k \in 1..(j - 1) : params[k].name # name
           kept == {j \in 1..Len(params) : j = first \/ params[j].name # name}
           position == [k \in 1..Cardinality(kept) |->
                          CHOOSE j \in kept :
                            Cardinality({m \in kept : m <= j}) = k]
       IN [k \in 1..Cardinality(kept) |->
             IF position[k] = first THEN [name |-> name, value |-> value]
             ELSE params[position[k]]]
  ELSE Append(params, [name |-> name, value |-> value])

\* url.toString()
UrlToString(url) ==
  IF Len(url.searchParams) = 0 THEN url.front
  ELSE url.front \o <<"?">> \o
         Join([j \in 1..Len(url.searchParams) |->
                 url.searchParams[j].name \o <<"=">> \o url.searchParams[j].value],
              <<"&">>)

PageName == <<"p","a","g","e">>
ViewName == <<"v","i","e","w">>
DetailValue == <<"d","e","t","a","i","l">>

\* The URL fetchIMDBListPage(baseUrl, page) requests (lines 370-379), for a
\* baseUrl that new URL accepts.
FinalUrl(baseUrl, page) ==
  LET url == ParseUrl(baseUrl)
      paged == IF page > 1
               THEN SearchParamsSet(url.searchParams, PageName, StringOfNumber(page))
               ELSE url.searchParams
      viewed == IF ~SearchParamsHas(paged, ViewName)
                THEN SearchParamsSet(paged, ViewName, DetailValue)
                ELSE paged
  IN UrlToString([front |-> url.front, searchParams |-> viewed])

\* References that parseListId rejects: a title id, a list prefix without digits.
InvalidReferences == {<<"t","t","1">>, <<"l","s">>}

\* The references callers pass to fetchIMDBList.
References == {<<"l","s","1">>} \cup InvalidReferences

----------------------------------------------------------------------------
\* The paged source (the page-fetch collaborator plus parseIMDBListPage).

\* The item with primary id n as page k of the source delivers it.
Item(n, k) == [imdbId |-> n, from |-> k]

\* len items with consecutive ids from start, as delivered by the fetch of page k.
Range(start, len, k) == [j \in 1..len |-> Item(start + j - 1, k)]

\* Page k of a well-formed source of size items: 250 per page, the last one the
\* remainder, nothing beyond it.
CanonPage(size, k) ==
  LET first == (k - 1) * ITEMS_PER_PAGE + 1
      len == IF first > size THEN 0 ELSE Min(ITEMS_PER_PAGE, size - first + 1)
  IN Range(first, len, k)

\* What a successful fetch of page k >= 2 may deliver: the source's own page, the
\* first page again (a source that ignores the page parameter), or a page that
\* repeats the second half of the page before it.
PageKinds == {"canon", "first", "overlap"}

PageOf(kind, size, k) ==
  CASE kind = "canon" -> CanonPage(size, k)
    [] kind = "first" -> Range(1, ITEMS_PER_PAGE, k)
    [] kind = "overlap" ->
         Range((k - 1) * ITEMS_PER_PAGE + 1 - (ITEMS_PER_PAGE \div 2), ITEMS_PER_PAGE, k)

SourceSizes ==
  {k * ITEMS_PER_PAGE : k \in 0..MaxSourcePages}
    \cup {k * ITEMS_PER_PAGE + PartialPage : k \in {0, 2}}

\* Non-success outcomes of a page fetch: status 404, another status, a transport error.
FetchFailures == {"404", "500", "transport"}

\* Status 404 reported like every other status.
FetchErrorOneKind(failure) ==
  CASE failure = "404" -> "HTTP error 500"
    [] failure = "500" -> "HTTP error 500"
    [] failure = "transport" -> "transport"

\* fetchIMDBListPage's error for a failure.
FetchError(failure) ==
  CASE failure = "404" -> "NotFound"
    [] failure = "500" -> "HTTP error 500"
    [] failure = "transport" -> "transport"

\* The options a caller may pass.
FetchAllChoices == {"undefined", "true", "false"}
MaxItemsChoices ==
  {Undefined, 1, ITEMS_PER_PAGE + PartialPage, 2 * ITEMS_PER_PAGE}
PageChoices == {Undefined} \cup 0..MaxRequestPage

\* fetchAll read as true whatever the caller passed.
FetchAllOfAlways(o) == TRUE

\* const { fetchAll = true, ... } = options
FetchAllOf(o) == o.fetchAll # "false"

\* The page parameter never set on the request.
PageOfRequestUnset(page) == 1

\* The page of the source that fetchIMDBListPage(baseUrl, page) requests: the
\* page parameter is set when page > 1, without it the base URL built from a
\* user or list id names the first page (lines 370-373).
PageOfRequest(page) == IF page > 1 THEN page ELSE 1

\* Fetch-all mode: fetchAll is true (also by default) and no page number is given
\* (a page number makes the call a single-page call, line 453).
FetchAllMode(o) == FetchAllOf(o) /\ o.page = Undefined

Ids(its) == {its[j].imdbId : j \in 1..Len(its)}

Take(s, n) == SubSeq(s, 1, Min(n, Len(s)))

\* The turn without the test of seenIds.
MergeItemUnseen(item, acc, maxItems) ==
  IF acc.stopped
  THEN acc
  ELSE [allItems |-> Append(acc.allItems, item),
        seenIds |-> acc.seenIds \cup {item.imdbId},
        addedCount |-> acc.addedCount + 1,
        stopped |-> Truthy(maxItems) /\ Len(acc.allItems) + 1 >= maxItems]

\* A turn that replaces the record of an id already seen by the later one.
MergeItemReplacing(item, acc, maxItems) ==
  IF acc.stopped
  THEN acc
  ELSE IF item.imdbId \in acc.seenIds
  THEN [acc EXCEPT !.allItems =
          [k \in 1..Len(acc.allItems) |->
             IF acc.allItems[k].imdbId = item.imdbId THEN item
             ELSE acc.allItems[k]]]
  ELSE [allItems |-> Append(acc.allItems, item),
        seenIds |-> acc.seenIds \cup {item.imdbId},
        addedCount |-> acc.addedCount + 1,
        stopped |-> Truthy(maxItems) /\ Len(acc.allItems) + 1 >= maxItems]

\* One turn of the for loop over pageItems (lines 487-497): an item is pushed when
\* its id was not seen, and the loop breaks as soon as the cap is reached.
MergeItem(item, acc, maxItems) ==
  IF acc.stopped \/ item.imdbId \in acc.seenIds
  THEN acc
  ELSE [allItems |-> Append(acc.allItems, item),
        seenIds |-> acc.seenIds \cup {item.imdbId},
        addedCount |-> acc.addedCount + 1,
        stopped |-> Truthy(maxItems) /\ Len(acc.allItems) + 1 >= maxItems]

\* The turns for pageItems[lo..hi], in order (split in halves to bound the depth
\* of the evaluation; the turns run left to right).
RECURSIVE MergeFrom(_, _, _, _, _)
MergeFrom(pageItems, lo, hi, acc, maxItems) ==
  IF lo > hi THEN acc
  ELSE IF lo = hi THEN MergeItem(pageItems[lo], acc, maxItems)
  ELSE LET mid == (lo + hi) \div 2
           left == MergeFrom(pageItems, lo, mid, acc, maxItems)
       IN \* the test only makes the left half be evaluated before the right one
          IF left.addedCount >= 0
          THEN MergeFrom(pageItems, mid + 1, hi, left, maxItems)
          ELSE left

\* The whole for loop (lines 486-498) on the items gathered so far.
MergePage(pageItems, its, seen, maxItems) ==
  MergeFrom(pageItems, 1, Len(pageItems),
            [allItems |-> its, seenIds |-> seen, addedCount |-> 0,
             stopped |-> FALSE],
            maxItems)

\* const finalItems = maxItems ? allItems.slice(0, maxItems) : allItems
FinalItems(its, maxItems) ==
  IF Truthy(maxItems) THEN Take(its, maxItems) ELSE its

\* An effective total that takes a full first page without a declared total
\* for a list that goes on.
EffectiveTotalAssumingMore(declared, firstPageItems) ==
  IF declared # 0 THEN declared
  ELSE IF Len(firstPageItems) = ITEMS_PER_PAGE THEN Len(firstPageItems) + 1
  ELSE Len(firstPageItems)

\* const effectiveTotal = totalItems || firstPageItems.length (line 446).
EffectiveTotal(declared, firstPageItems) ==
  IF declared # 0 THEN declared ELSE Len(firstPageItems)

\* A single-page result that names the first page as the fetch-all result
\* does.
SinglePageResultFirst(its, total, pages, page) ==
  [items |-> its, totalItems |-> total, currentPage |-> 1, totalPages |-> pages,
   hasMore |-> 1 < pages]

\* The single-page result (lines 453-466).
SinglePageResult(its, total, pages, page) ==
  [items |-> its, totalItems |-> total,
   currentPage |-> IF Truthy(page) THEN page ELSE 1,
   totalPages |-> pages,
   hasMore |-> (IF Truthy(page) THEN page ELSE 1) < pages]

\* The fetch-all result (lines 521-535).
AllPagesResult(its, total, pages, maxItems) ==
  [items |-> FinalItems(its, maxItems), totalItems |-> total, currentPage |-> 1,
   totalPages |-> pages, hasMore |-> FALSE]

NoResult ==
  [items |-> << >>, totalItems |-> 0, currentPage |-> 0, totalPages |-> 0,
   hasMore |-> FALSE]

FetchInit ==
  /\ fpc = "idle"
  /\ reference = << >>
  /\ options = [fetchAll |-> "undefined", maxItems |-> Undefined, page |-> Undefined,
                detailed |-> FALSE]
  /\ srcSize = 0
  /\ pending = 0
  /\ fetchLog = << >>
  /\ recvLog = << >>
  /\ totalItems = 0
  /\ effectiveTotal = 0
  /\ totalPages = 0
  /\ allItems = << >>
  /\ seenIds = {}
  /\ currentPage = 0
  /\ addedLast = 0
  /\ fresult = NoResult
  /\ ferror = "none"

\* fetchIMDBList(listIdOrUrl, options) up to its first await: a reference that
\* parseListId rejects throws, any other issues the fetch of page (page || 1).
FetchCall(ref, o) ==
  /\ fpc = "idle"
  /\ reference' = ref
  /\ options' = o
  /\ IF parseListId(ref) # NoListInfo
     THEN /\ fpc' = "first"
          /\ pending' = PageOfRequest(IF Truthy(o.page) THEN o.page ELSE 1)
          /\ fetchLog' = <<PageOfRequest(IF Truthy(o.page) THEN o.page ELSE 1)>>
          /\ ferror' = ferror
     ELSE /\ fpc' = "failed"
          /\ ferror' = "InvalidReference"
          /\ UNCHANGED <<pending, fetchLog>>
  /\ UNCHANGED <<srcSize, recvLog, totalItems, effectiveTotal, totalPages, allItems,
                 seenIds, currentPage, addedLast, fresult>>
  /\ UNCHANGED notFetch

\* The first page arrives (lines 440-471): page `pending` of a source of `size`
\* items, declaring `total` items.
FirstPageArrives(size, total) ==
  /\ fpc = "first"
  /\ LET firstPageItems == CanonPage(size, pending)
         eff == EffectiveTotal(total, firstPageItems)
         pages == Ceil(eff, ITEMS_PER_PAGE)
     IN /\ srcSize' = size
        /\ totalItems' = total
        /\ effectiveTotal' = eff
        /\ totalPages' = pages
        /\ recvLog' = Append(recvLog, "canon")
        /\ pending' = 0
        /\ IF ~FetchAllOf(options) \/ options.page # Undefined \/ pages <= 1
           THEN /\ fpc' = "done"
                /\ fresult' = SinglePageResult(firstPageItems, eff, pages, options.page)
                /\ UNCHANGED <<allItems, seenIds, currentPage>>
           ELSE /\ fpc' = "loop"
                /\ allItems' = firstPageItems
                /\ seenIds' = Ids(firstPageItems)
                /\ currentPage' = 2
                /\ fresult' = fresult
  /\ UNCHANGED <<reference, options, fetchLog, addedLast, ferror>>
  /\ UNCHANGED notFetch

\* The first page fetch fails: the error propagates (lines 392-397, 536-539).
FirstPageFails(failure) ==
  /\ fpc = "first"
  /\ fpc' = "failed"
  /\ ferror' = FetchError(failure)
  /\ pending' = 0
  /\ recvLog' = Append(recvLog, failure)
  /\ UNCHANGED <<reference, options, srcSize, fetchLog, totalItems, effectiveTotal, totalPages,
                 allItems, seenIds, currentPage, addedLast, fresult>>
  /\ UNCHANGED notFetch

\* Leaving the while loop, by its condition or by a break, runs to the return.
Finish(its) ==
  /\ fpc' = "done"
  /\ fresult' = AllPagesResult(its, effectiveTotal, totalPages, options.maxItems)

\* while (currentPage <= totalPages) is false.
LoopExit ==
  /\ fpc = "loop"
  /\ currentPage > totalPages
  /\ Finish(allItems)
  /\ UNCHANGED <<reference, options, srcSize, pending, fetchLog, recvLog, totalItems,
                 effectiveTotal, totalPages, allItems, seenIds, currentPage,
                 addedLast, ferror>>
  /\ UNCHANGED notFetch

\* if (maxItems && allItems.length >= maxItems) break (lines 475-478).
LoopCapStop ==
  /\ fpc = "loop"
  /\ currentPage <= totalPages
  /\ Truthy(options.maxItems) /\ Len(allItems) >= options.maxItems
  /\ Finish(allItems)
  /\ UNCHANGED <<reference, options, srcSize, pending, fetchLog, recvLog, totalItems,
                 effectiveTotal, totalPages, allItems, seenIds, currentPage,
                 addedLast, ferror>>
  /\ UNCHANGED notFetch

\* A fetch issued without awaiting the one before it.
LoopIssueUnawaited ==
  /\ fpc \in {"loop", "page"}
  /\ currentPage <= totalPages
  /\ ~(Truthy(options.maxItems) /\ Len(allItems) >= options.maxItems)
  /\ fpc' = "page"
  /\ pending' = currentPage
  /\ fetchLog' = Append(fetchLog, currentPage)
  /\ UNCHANGED <<reference, options, srcSize, recvLog, totalItems, effectiveTotal, totalPages,
                 allItems, seenIds, currentPage, addedLast, fresult, ferror>>
  /\ UNCHANGED notFetch

\* The fetch of page currentPage is issued (line 483).
LoopIssue ==
  /\ fpc = "loop"
  /\ currentPage <= totalPages
  /\ ~(Truthy(options.maxItems) /\ Len(allItems) >= options.maxItems)
  /\ fpc' = "page"
  /\ pending' = currentPage
  /\ fetchLog' = Append(fetchLog, currentPage)
  /\ UNCHANGED <<reference, options, srcSize, recvLog, totalItems, effectiveTotal, totalPages,
                 allItems, seenIds, currentPage, addedLast, fresult, ferror>>
  /\ UNCHANGED notFetch

\* A loop that goes on after a page without new items.
EndOfDataNever(addedCount) == FALSE

\* if (addedCount === 0) break (lines 505-508).
EndOfData(addedCount) == addedCount = 0

\* Page currentPage arrives and is merged (lines 483-508, 515).
PageArrives(kind) ==
  /\ fpc = "page"
  /\ LET m == MergePage(PageOf(kind, srcSize, pending), allItems, seenIds,
                        options.maxItems)
     IN /\ allItems' = m.allItems
        /\ seenIds' = m.seenIds
        /\ addedLast' = m.addedCount
        /\ IF EndOfData(m.addedCount)
           THEN /\ Finish(m.allItems)
                /\ currentPage' = currentPage
           ELSE /\ fpc' = "delay"
                /\ currentPage' = currentPage + 1
                /\ fresult' = fresult
  /\ pending' = 0
  /\ recvLog' = Append(recvLog, kind)
  /\ UNCHANGED <<reference, options, srcSize, fetchLog, totalItems, effectiveTotal, totalPages,
                 ferror>>
  /\ UNCHANGED notFetch

\* The failure of a later page leaves fetchIMDBList as the failure of the first
\* page does.
PageFailsThrows(failure) ==
  /\ fpc = "page"
  /\ fpc' = "failed"
  /\ ferror' = FetchError(failure)
  /\ pending' = 0
  /\ recvLog' = Append(recvLog, failure)
  /\ UNCHANGED <<reference, options, srcSize, fetchLog, totalItems, effectiveTotal, totalPages,
                 allItems, seenIds, currentPage, addedLast, fresult>>
  /\ UNCHANGED notFetch

\* A failed fetch of a page that is tried again.
PageFailsRetries(failure) ==
  /\ fpc = "page"
  /\ fpc' = "loop"
  /\ pending' = 0
  /\ recvLog' = Append(recvLog, failure)
  /\ UNCHANGED <<reference, options, srcSize, fetchLog, totalItems, effectiveTotal, totalPages,
                 allItems, seenIds, currentPage, addedLast, fresult, ferror>>
  /\ UNCHANGED notFetch

\* The fetch of page currentPage fails: catch (pageError) { break } (lines 509-513).
PageFails(failure) ==
  /\ fpc = "page"
  /\ Finish(allItems)
  /\ pending' = 0
  /\ recvLog' = Append(recvLog, failure)
  /\ UNCHANGED <<reference, options, srcSize, fetchLog, totalItems, effectiveTotal, totalPages,
                 allItems, seenIds, currentPage, addedLast, ferror>>
  /\ UNCHANGED notFetch

\* The 200 ms pause between two page fetches is over (line 518).
DelayElapses ==
  /\ fpc = "delay"
  /\ fpc' = "loop"
  /\ UNCHANGED <<reference, options, srcSize, pending, fetchLog, recvLog, totalItems,
                 effectiveTotal, totalPages, allItems, seenIds, currentPage,
                 addedLast, fresult, ferror>>
  /\ UNCHANGED notFetch

FetchOptions ==
  [fetchAll : FetchAllChoices, maxItems : MaxItemsChoices, page : PageChoices,
   detailed : BOOLEAN]

FetchNext ==
  \/ \E ref \in References, o \in FetchOptions : FetchCall(ref, o)
  \/ \E size \in SourceSizes :
       \E total \in {0, size, MaxSourcePages * ITEMS_PER_PAGE} :
         FirstPageArrives(size, total)
  \/ \E failure \in FetchFailures : FirstPageFails(failure)
  \/ LoopExit
  \/ LoopCapStop
  \/ LoopIssue
  \/ \E kind \in PageKinds : PageArrives(kind)
  \/ \E failure \in FetchFailures : PageFails(failure)
  \/ DelayElapses

----------------------------------------------------------------------------
\* parseIMDBListPage: the three passes over one page's markup. The markup is read
\* as the passes read it: the blob's object nodes in walk order, the anchors in
\* document order, the linked-data entries block by block.

ContentTypes ==
  {"movie", "tvSeries", "tvMiniSeries", "tvSpecial", "video", "short", "unknown"}

\* !year: an absent year and 0 are falsy.
YearFalsy(y) == y \in {Undefined, 0}

\* The type hints of blob nodes (titleType.id, titleType, @type); the empty string
\* stands for no hint.
RawTypes == {<< >>, <<"m","o","v","i","e">>, <<"t","v","M","i","n","i","S","e","r","i","e","s">>}

\* The type of a blob node from its type hint (lines 590-599).
BlobType(rawType) ==
  IF rawType = << >> THEN "unknown"
  ELSE LET t == Lower(rawType)
       IN IF Includes(t, <<"t","v","m","i","n","i">>) THEN "tvMiniSeries"
          ELSE IF \/ Includes(t, <<"t","v","s","e","r","i","e","s">>)
                  \/ t = <<"t","v","s","e","r","i","e","s">> THEN "tvSeries"
          ELSE IF \/ Includes(t, <<"m","o","v","i","e">>)
                  \/ t = <<"f","e","a","t","u","r","e">> THEN "movie"
          ELSE IF Includes(t, <<"s","p","e","c","i","a","l">>) THEN "tvSpecial"
          ELSE IF Includes(t, <<"v","i","d","e","o">>) THEN "video"
          ELSE IF Includes(t, <<"s","h","o","r","t">>) THEN "short"
          ELSE "unknown"

\* The @type annotations of linked-data entries; the empty string for none.
LdTypes == {<< >>, <<"T","V","S","e","r","i","e","s">>, <<"T","V","E","p","i","s","o","d","e">>}

\* existing.type = mappedType whatever mappedType is.
LdTypeOfAny(existingType, mappedType) == mappedType

\* The type of an existing item after a linked-data entry (lines 707-710).
LdTypeOf(existingType, mappedType) ==
  IF mappedType # "unknown" THEN mappedType ELSE existingType

\* The type of a linked-data entry from its @type (lines 694-703).
LdType(atypeRaw) ==
  LET atype == Lower(atypeRaw)
  IN IF Includes(atype, <<"t","v","m","i","n","i","s","e","r","i","e","s">>) THEN "tvMiniSeries"
     ELSE IF Includes(atype, <<"t","v","s","e","r","i","e","s">>) THEN "tvSeries"
     ELSE IF Includes(atype, <<"m","o","v","i","e">>) THEN "movie"
     ELSE IF Includes(atype, <<"t","v","e","p","i","s","o","d","e">>) THEN "unknown"
     ELSE "unknown"

\* The type of each @type value the entries carry, computed once.
LdTypeTable == [atypeRaw \in LdTypes |-> LdType(atypeRaw)]

\* parseInt(datePublished.substring(0, 4)); the date is absent or starts with a
\* year.
LdDates == {"absent", "2021"}
LdYear(date) ==
  CASE date = "absent" -> Undefined
    [] date = "2021" -> 2021

\* A blob node: id is the valid primary id of node.id or node.const (0: none),
\* title the first non-empty title field (""), year the first year field.
BlobNodes ==
  [id : 0..NumPageIds, title : {"", "Blob title"}, rawType : RawTypes, year : {2020}]

\* An anchor: id from the href (0: the href holds no /title/tt<digits>), title the
\* cleaned-up title text, type and year read from the item container's text.
Anchors ==
  [id : 0..NumPageIds, title : {"", "Anchor title"}, type : {"unknown", "tvSeries"},
   year : {Undefined, 1999}]

\* An entry of an ItemList block: id from item.url (0: no url, or no id in it).
LdEntries == [id : 0..NumPageIds, atype : LdTypes, name : {"Ld name"}, date : LdDates]

\* items.find((it) => it.imdbId === imdbId): the index of the first, 0 for none.
FindIndex(its, id) ==
  IF \E j \in 1..Len(its) : its[j].imdbId = id
  THEN CHOOSE j \in 1..Len(its) :
         its[j].imdbId = id /\ \A k \in 1..(j - 1) : its[k].imdbId # id
  ELSE 0

ParseInit ==
  /\ ppc = "idle"
  /\ items = << >>
  /\ pageSeenIds = {}
  /\ pstep = 0
  /\ ldKeptConcrete = FALSE
  /\ ldOverwroteConcrete = FALSE
  /\ anchorMetBlobItem = FALSE
  /\ blobFailed = FALSE

\* Without the catch the error of JSON.parse leaves parseIMDBListPage.
BlobCatchMissing == "raised"

\* The catch of lines 633 and 635: after a blob that is not JSON the function
\* goes on with the anchor scan.
BlobCatch == "anchors"

\* Without the catch the error of a linked-data block leaves parseIMDBListPage.
LdCatchMissing == "raised"

\* The catch of lines 729-731: after a block that threw the function goes on
\* with the next block.
LdCatch == "jsonld"

\* parseIMDBListPage(html) up to the blob: absent or empty, not JSON, or parsed.
\* blobFailed notes a blob that was not JSON.
ParseCall(blob) ==
  /\ ppc = "idle"
  /\ ppc' = (IF blob = "parsed" THEN "blob"
             ELSE IF blob = "malformed" THEN BlobCatch
             ELSE "anchors")
  /\ blobFailed' = (blob = "malformed")
  /\ UNCHANGED <<items, pageSeenIds, pstep, ldKeptConcrete, ldOverwroteConcrete, anchorMetBlobItem>>
  /\ UNCHANGED notParse

\* pushItem(node) for the next object node of the walk (lines 569-612).
BlobNode(node) ==
  /\ ppc = "blob"
  /\ pstep < MaxElems
  /\ pstep' = pstep + 1
  /\ IF node.id = 0 \/ node.id \in pageSeenIds \/ node.title = ""
     THEN UNCHANGED <<items, pageSeenIds>>
     ELSE /\ items' = Append(items, [imdbId |-> node.id, title |-> node.title,
                                      type |-> BlobType(node.rawType),
                                      year |-> node.year])
          /\ pageSeenIds' = pageSeenIds \cup {node.id}
  /\ UNCHANGED <<ppc, ldKeptConcrete, ldOverwroteConcrete, anchorMetBlobItem, blobFailed>>
  /\ UNCHANGED notParse

\* The walk is over.
BlobEnd ==
  /\ ppc = "blob"
  /\ ppc' = "anchors"
  /\ pstep' = 0
  /\ UNCHANGED <<items, pageSeenIds, ldKeptConcrete, ldOverwroteConcrete, anchorMetBlobItem, blobFailed>>
  /\ UNCHANGED notParse

\* The anchor names an id that the blob walk has collected, with no type.
MeetsBlobItem(a) ==
  /\ FindIndex(items, a.id) # 0
  /\ items[FindIndex(items, a.id)].title = "Blob title"
  /\ items[FindIndex(items, a.id)].type = "unknown"

\* An anchor scan that gives an item already collected the type read at the
\* anchor.
AnchorRetypes(a) ==
  /\ ppc = "anchors"
  /\ pstep < MaxElems
  /\ pstep' = pstep + 1
  /\ IF a.id # 0 /\ a.id \notin pageSeenIds
     THEN /\ pageSeenIds' = pageSeenIds \cup {a.id}
          /\ items' = Append(items, [imdbId |-> a.id,
                                      title |-> IF a.title = "" THEN "Unknown"
                                                ELSE a.title,
                                      type |-> a.type, year |-> a.year])
     ELSE IF FindIndex(items, a.id) # 0
     THEN /\ items' = [items EXCEPT ![FindIndex(items, a.id)].type = a.type]
          /\ UNCHANGED pageSeenIds
     ELSE UNCHANGED <<items, pageSeenIds>>
  /\ anchorMetBlobItem' = (anchorMetBlobItem \/ MeetsBlobItem(a))
  /\ UNCHANGED <<ppc, ldKeptConcrete, ldOverwroteConcrete, blobFailed>>
  /\ UNCHANGED notParse

\* An anchor scan that gives an item already collected the title of the anchor.
AnchorRetitles(a) ==
  /\ ppc = "anchors"
  /\ pstep < MaxElems
  /\ pstep' = pstep + 1
  /\ IF a.id # 0 /\ a.id \notin pageSeenIds
     THEN /\ pageSeenIds' = pageSeenIds \cup {a.id}
          /\ items' = Append(items, [imdbId |-> a.id,
                                      title |-> IF a.title = "" THEN "Unknown"
                                                ELSE a.title,
                                      type |-> a.type, year |-> a.year])
     ELSE IF FindIndex(items, a.id) # 0 /\ a.title # ""
     THEN /\ items' = [items EXCEPT ![FindIndex(items, a.id)].title = a.title]
          /\ UNCHANGED pageSeenIds
     ELSE UNCHANGED <<items, pageSeenIds>>
  /\ anchorMetBlobItem' = (anchorMetBlobItem \/ MeetsBlobItem(a))
  /\ UNCHANGED <<ppc, ldKeptConcrete, ldOverwroteConcrete, blobFailed>>
  /\ UNCHANGED notParse

\* The callback of the anchor scan for the next anchor (lines 641-680).
Anchor(a) ==
  /\ ppc = "anchors"
  /\ pstep < MaxElems
  /\ pstep' = pstep + 1
  /\ IF a.id # 0 /\ a.id \notin pageSeenIds
     THEN /\ pageSeenIds' = pageSeenIds \cup {a.id}
          /\ items' = Append(items, [imdbId |-> a.id,
                                      title |-> IF a.title = "" THEN "Unknown"
                                                ELSE a.title,
                                      type |-> a.type, year |-> a.year])
     ELSE UNCHANGED <<items, pageSeenIds>>
  /\ anchorMetBlobItem' = (anchorMetBlobItem \/ MeetsBlobItem(a))
  /\ UNCHANGED <<ppc, ldKeptConcrete, ldOverwroteConcrete, blobFailed>>
  /\ UNCHANGED notParse

\* The anchor scan is over.
AnchorsEnd ==
  /\ ppc = "anchors"
  /\ ppc' = "jsonld"
  /\ pstep' = 0
  /\ UNCHANGED <<items, pageSeenIds, ldKeptConcrete, ldOverwroteConcrete, anchorMetBlobItem, blobFailed>>
  /\ UNCHANGED notParse

\* The next entry of an ItemList block (lines 688-726).
LdEntry(e) ==
  /\ ppc = "jsonld"
  /\ pstep < MaxElems
  /\ pstep' = pstep + 1
  /\ LET mappedType == LdTypeTable[e.atype]
         k == FindIndex(items, e.id)
     IN IF e.id = 0 THEN UNCHANGED <<items, pageSeenIds, ldKeptConcrete, ldOverwroteConcrete, anchorMetBlobItem>>
        ELSE IF k # 0
        THEN /\ items' =
                  [items EXCEPT
                     ![k].type = LdTypeOf(items[k].type, mappedType),
                     ![k].year = IF YearFalsy(items[k].year) /\ e.date # "absent"
                                 THEN LdYear(e.date) ELSE items[k].year]
             /\ ldKeptConcrete' =
                  (ldKeptConcrete \/ (mappedType = "unknown" /\ items[k].type # "unknown"))
             /\ ldOverwroteConcrete' =
                  (ldOverwroteConcrete \/ (/\ items[k].type # "unknown"
                                           /\ items'[k].type # items[k].type))
             /\ UNCHANGED <<pageSeenIds, anchorMetBlobItem>>
        ELSE IF e.id \notin pageSeenIds
        THEN /\ pageSeenIds' = pageSeenIds \cup {e.id}
             /\ items' = Append(items, [imdbId |-> e.id,
                                         title |-> IF e.name = "" THEN "Unknown"
                                                   ELSE e.name,
                                         type |-> mappedType,
                                         year |-> LdYear(e.date)])
             /\ UNCHANGED <<ldKeptConcrete, ldOverwroteConcrete, anchorMetBlobItem>>
        ELSE UNCHANGED <<items, pageSeenIds, ldKeptConcrete, ldOverwroteConcrete, anchorMetBlobItem>>
  /\ UNCHANGED <<ppc, blobFailed>>
  /\ UNCHANGED notParse

\* A block that is no ItemList, or one that is not JSON or whose next entry makes
\* the code throw: the catch skips what is left of the block (lines 685-687,
\* 729-731).
LdBlockSkipped(why) ==
  /\ ppc = "jsonld"
  /\ pstep < MaxElems
  /\ pstep' = pstep + 1
  /\ ppc' = (IF why = "throws" THEN LdCatch ELSE "jsonld")
  /\ UNCHANGED <<items, pageSeenIds, ldKeptConcrete, ldOverwroteConcrete, anchorMetBlobItem, blobFailed>>
  /\ UNCHANGED notParse

\* No block is left: return items.
ParseReturn ==
  /\ ppc = "jsonld"
  /\ ppc' = "done"
  /\ UNCHANGED <<items, pageSeenIds, pstep, ldKeptConcrete, ldOverwroteConcrete, anchorMetBlobItem, blobFailed>>
  /\ UNCHANGED notParse

ParseNext ==
  \/ \E blob \in {"absent", "malformed", "parsed"} : ParseCall(blob)
  \/ \E node \in BlobNodes : BlobNode(node)
  \/ BlobEnd
  \/ \E a \in Anchors : Anchor(a)
  \/ AnchorsEnd
  \/ \E e \in LdEntries : LdEntry(e)
  \/ \E why \in {"notItemList", "throws"} : LdBlockSkipped(why)
  \/ ParseReturn

----------------------------------------------------------------------------
\* The TTL cache, the TMDB client and resolveIMDBToTVDB (lines 10-118, 175-178).

ImdbIds == 1..NumImdbIds

Slots == 1..MaxCalls

\* One step of the clock.
TickLen == StdTTL \div 2

\* The null that resolveIMDBToTVDB returns for not-found; a resolved record has a
\* truthy tvdbId (line 102).
NullResult == [tvdbId |-> 0, tmdbId |-> 0, title |-> ""]

\* The null of findByIMDBId.
NoFind == [tmdbId |-> 0, name |-> ""]

\* What becomes of the find request: a status that is not ok, a rejected fetch or
\* an unreadable body, a body without tv_results, a body with a first tv result.
FindOutcomes == {"notOk", "throws", "empty", "found"}

\* What becomes of the external_ids request: the same failures, a body without a
\* truthy tvdb_id, a body with one.
ExtOutcomes == {"notOk", "throws", "noTvdbId", "found"}

\* The outcomes in which the request itself failed.
LookupFailures == {"notOk", "throws"}

\* The ids the external service knows the show of primary id n by.
TmdbOf(n) == 100 + n
TvdbOf(tmdbId) == 100 + tmdbId

\* The name the external service has for that show: every second show has none.
NameOf(n) == IF n % 2 = 0 THEN "" ELSE "Show"

\* findByIMDBId after its request came back (lines 37-54).
findByIMDBId(outcome, imdbId) ==
  IF outcome = "found"
  THEN [tmdbId |-> TmdbOf(imdbId), name |-> NameOf(imdbId)]
  ELSE NoFind

\* The body read whatever became of the request.
getExternalIdsUnchecked(outcome, tmdbId) ==
  IF outcome \in {"found"} \cup LookupFailures
  THEN [tvdb_id |-> TvdbOf(tmdbId)]
  ELSE [tvdb_id |-> 0]

\* getExternalIds after its request came back (lines 66-75); null and a body
\* without tvdb_id are the same to line 102.
getExternalIds(outcome, tmdbId) ==
  IF outcome = "found"
  THEN [tvdb_id |-> TvdbOf(tmdbId)]
  ELSE [tvdb_id |-> 0]

\* The cache is a function from the keys it holds to the stored value v and the
\* second t at which the entry expires.
EmptyCache == [k \in {} |-> [v |-> NullResult, t |-> 0]]

\* An entry is expired once the clock has passed t.
Expired(c, k, t) == k \in DOMAIN c /\ c[k].t < t

Without(c, ks) == [k \in DOMAIN c \ ks |-> c[k]]

\* cache.get(k): the stored value of a live entry, else undefined.
CacheGet(c, k, t) ==
  IF k \in DOMAIN c /\ ~Expired(c, k, t) THEN c[k].v ELSE NullResult

\* A cache whose reads refresh the entry: a live entry read at t lives stdTTL
\* from t.
CacheAfterGetRefreshing(c, k, t) ==
  IF Expired(c, k, t) THEN Without(c, {k})
  ELSE IF k \in DOMAIN c THEN [c EXCEPT ![k].t = t + StdTTL]
  ELSE c

\* cache.get(k) deletes the entry it finds expired.
CacheAfterGet(c, k, t) == IF Expired(c, k, t) THEN Without(c, {k}) ELSE c

\* An entry that lives half of stdTTL.
CacheSetHalfTTL(c, k, v, t) ==
  [j \in DOMAIN c \cup {k} |->
     IF j = k THEN [v |-> v, t |-> t + StdTTL \div 2] ELSE c[j]]

\* cache.set(k, v): the entry lives stdTTL from the write.
CacheSet(c, k, v, t) ==
  [j \in DOMAIN c \cup {k} |->
     IF j = k THEN [v |-> v, t |-> t + StdTTL] ELSE c[j]]

\* The periodic check (checkperiod) deletes every expired entry.
CacheSweep(c, t) == Without(c, {k \in DOMAIN c : c[k].t < t})

\* cache.flushAll().
FlushAll(c) == EmptyCache

\* One call of resolveIMDBToTVDB: where it stands (idle, find: awaits the find
\* request, ext: awaits the external_ids request, done), its argument, what find
\* gave, the tvdb_id external_ids gave (0 for none), what it returns (result, or
\* threw), whether the cache answered, the find and external_ids requests it
\* has sent, and whether one of them failed.
IdleCall ==
  [pc |-> "idle", id |-> 0, findResult |-> NoFind, externalIds |-> 0,
   result |-> NullResult, threw |-> FALSE, hit |-> FALSE, nfind |-> 0, next |-> 0,
   lookupFailed |-> FALSE]

\* The find request sent without a look at the credential.
ResolveStartNoKeyCheck(id, c, t, key) ==
  LET cached == CacheGet(c, id, t)
  IN IF cached # NullResult
     THEN [IdleCall EXCEPT !.pc = "done", !.id = id, !.result = cached,
                           !.hit = TRUE]
     ELSE [IdleCall EXCEPT !.pc = "find", !.id = id, !.nfind = 1]

\* resolveIMDBToTVDB(id) up to its first await: the cache read (lines 85-89),
\* then findByIMDBId, whose getTMDBApiKey throws without a key (lines 18-26, 32),
\* else the find request goes out (line 36).
ResolveStart(id, c, t, key) ==
  LET cached == CacheGet(c, id, t)
  IN IF cached # NullResult
     THEN [IdleCall EXCEPT !.pc = "done", !.id = id, !.result = cached,
                           !.hit = TRUE]
     ELSE IF ~key
     THEN [IdleCall EXCEPT !.pc = "done", !.id = id, !.threw = TRUE]
     ELSE [IdleCall EXCEPT !.pc = "find", !.id = id, !.nfind = 1]

\* The external_ids request sent whatever find gave.
AfterFindAlwaysExt(call, outcome) ==
  LET findResult == findByIMDBId(outcome, call.id)
  IN [call EXCEPT !.pc = "ext", !.findResult = findResult, !.next = 1,
                   !.lookupFailed = outcome \in LookupFailures]

\* Lines 94-101: not-found when find gave null, else the external_ids request
\* goes out (the key is still set).
AfterFind(call, outcome) ==
  LET findResult == findByIMDBId(outcome, call.id)
  IN IF findResult = NoFind
     THEN [call EXCEPT !.pc = "done", !.lookupFailed = outcome \in LookupFailures]
     ELSE [call EXCEPT !.pc = "ext", !.findResult = findResult, !.next = 1]

\* A resolution that stores its not-found as well.
AfterExtCachingMiss(call, outcome, c, t) ==
  LET externalIds == getExternalIds(outcome, call.findResult.tmdbId)
      result == [tvdbId |-> externalIds.tvdb_id,
                 tmdbId |-> call.findResult.tmdbId,
                 title |-> call.findResult.name]
  IN IF externalIds.tvdb_id = 0
     THEN [call |-> [call EXCEPT !.pc = "done",
                                 !.lookupFailed = outcome \in LookupFailures],
           cache |-> CacheSet(c, call.id, result, t)]
     ELSE [call |-> [call EXCEPT !.pc = "done", !.result = result,
                                 !.externalIds = externalIds.tvdb_id,
                                 !.lookupFailed = outcome \in LookupFailures],
           cache |-> CacheSet(c, call.id, result, t)]

\* Lines 102-117: not-found without a truthy tvdb_id, else the result is written
\* to the cache and returned.
AfterExt(call, outcome, c, t) ==
  LET externalIds == getExternalIds(outcome, call.findResult.tmdbId)
      result == [tvdbId |-> externalIds.tvdb_id,
                 tmdbId |-> call.findResult.tmdbId,
                 title |-> call.findResult.name]
  IN IF externalIds.tvdb_id = 0
     THEN [call |-> [call EXCEPT !.pc = "done",
                                 !.lookupFailed = outcome \in LookupFailures],
           cache |-> c]
     ELSE [call |-> [call EXCEPT !.pc = "done", !.result = result,
                                 !.externalIds = externalIds.tvdb_id,
                                 !.lookupFailed = outcome \in LookupFailures],
           cache |-> CacheSet(c, call.id, result, t)]

\* What an observer notes about the cache: for every id the latest resolution
\* that looked it up successfully since the last flush, the second at which it
\* returned and what (lastOk), and the ids that were cached when the cache was
\* flushed and have not been asked for since (flushedIds).

\* No successful lookup on record.
NoOk == [at |-> Undefined, v |-> NullResult]

StoreInit ==
  /\ cache = EmptyCache
  /\ now = 0
  /\ apiKeySet \in BOOLEAN

ResolveInit ==
  /\ calls = [s \in Slots |-> IdleCall]
  /\ lastOk = [id \in ImdbIds |-> NoOk]
  /\ flushedIds = {}

\* A caller calls resolveIMDBToTVDB(id); the call runs to its first await.
ResolveCall(s, id) ==
  /\ calls[s].pc = "idle"
  /\ calls' = [calls EXCEPT ![s] = ResolveStart(id, cache, now, apiKeySet)]
  /\ cache' = CacheAfterGet(cache, id, now)
  /\ flushedIds' = flushedIds \ {id}
  /\ UNCHANGED <<now, apiKeySet, lastOk>>
  /\ UNCHANGED notResolve

\* The find request of call s comes back.
FindReturns(s, outcome) ==
  /\ calls[s].pc = "find"
  /\ calls' = [calls EXCEPT ![s] = AfterFind(calls[s], outcome)]
  /\ UNCHANGED <<cache, now, apiKeySet, lastOk, flushedIds>>
  /\ UNCHANGED notResolve

\* The external_ids request of call s comes back.
ExtReturns(s, outcome) ==
  /\ calls[s].pc = "ext"
  /\ LET after == AfterExt(calls[s], outcome, cache, now)
     IN /\ calls' = [calls EXCEPT ![s] = after.call]
        /\ cache' = after.cache
        /\ lastOk' = IF after.call.result # NullResult
                     THEN [lastOk EXCEPT ![calls[s].id] =
                             [at |-> now, v |-> after.call.result]]
                     ELSE lastOk
  /\ UNCHANGED <<now, apiKeySet, flushedIds>>
  /\ UNCHANGED notResolve

\* The caller has taken what call s returned.
ResultTaken(s) ==
  /\ calls[s].pc = "done"
  /\ calls' = [calls EXCEPT ![s] = IdleCall]
  /\ UNCHANGED <<cache, now, apiKeySet, lastOk, flushedIds>>
  /\ UNCHANGED notResolve

\* clearCache() (lines 175-178).
clearCache ==
  /\ cache' = FlushAll(cache)
  /\ flushedIds' = flushedIds \cup {k \in DOMAIN cache : ~Expired(cache, k, now)}
  /\ lastOk' = [id \in ImdbIds |-> NoOk]
  /\ UNCHANGED <<now, apiKeySet, calls>>
  /\ UNCHANGED notResolve

\* Time passes.
Tick ==
  /\ now < MaxTicks * TickLen
  /\ now' = now + TickLen
  /\ UNCHANGED <<cache, apiKeySet, calls, lastOk, flushedIds>>
  /\ UNCHANGED notResolve

\* The periodic check of the cache runs.
Sweep ==
  /\ \E k \in DOMAIN cache : Expired(cache, k, now)
  /\ cache' = CacheSweep(cache, now)
  /\ UNCHANGED <<now, apiKeySet, calls, lastOk, flushedIds>>
  /\ UNCHANGED notResolve

ResolveNext ==
  \/ \E s \in Slots, id \in ImdbIds : ResolveCall(s, id)
  \/ \E s \in Slots, outcome \in FindOutcomes : FindReturns(s, outcome)
  \/ \E s \in Slots, outcome \in ExtOutcomes : ExtReturns(s, outcome)
  \/ \E s \in Slots : ResultTaken(s)
  \/ clearCache
  \/ Tick
  \/ Sweep

----------------------------------------------------------------------------
\* convertToSonarrFormat (lines 124-163).

\* A list of n items; their primary ids repeat after NumListIds.
ConvertItems(n) ==
  [j \in 1..n |-> [imdbId |-> ((j - 1) % NumListIds) + 1, title |-> "Item"]]

\* A batch of everything from i on.
BatchAll(i, n) == (i + 1)..n

\* The positions of items.slice(i, i + batchSize) (line 131), counted from 1.
Batch(i, n) == (i + 1)..Min(i + batchSize, n)

\* A batch with single flight: an item whose id stands earlier in the batch
\* awaits the find request of that item and sends none of its own.
StartBatchCoalescing(rs, i, its, c, t, key) ==
  [j \in 1..Len(its) |->
     IF j \in Batch(i, Len(its))
     THEN IF \E k \in Batch(i, Len(its)) : k < j /\ its[k].imdbId = its[j].imdbId
          THEN [ResolveStart(its[j].imdbId, c, t, key) EXCEPT !.nfind = 0]
          ELSE ResolveStart(its[j].imdbId, c, t, key)
     ELSE rs[j]]

\* batch.map(...) (line 133): every callback of the batch runs to its first
\* await, resolveIMDBToTVDB reading the cache as the batch finds it.
StartBatch(rs, i, its, c, t, key) ==
  [j \in 1..Len(its) |->
     IF j \in Batch(i, Len(its))
     THEN ResolveStart(its[j].imdbId, c, t, key)
     ELSE rs[j]]

\* The reads of the batch delete the entries they find expired.
CacheAfterBatch(i, its, c, t) ==
  Without(c, {k \in DOMAIN c :
                /\ Expired(c, k, t)
                /\ \E j \in Batch(i, Len(its)) : its[j].imdbId = k})

\* The record with the item's own title.
SeriesItemTitle(item, resolved) ==
  [TvdbId |-> resolved.tvdbId,
   Title |-> item.title,
   ImdbId |-> item.imdbId,
   TmdbId |-> IF resolved.tmdbId # 0 THEN resolved.tmdbId ELSE Undefined]

\* The record of lines 137-145; TmdbId is set only for a truthy tmdbId.
Series(item, resolved) ==
  [TvdbId |-> resolved.tvdbId,
   Title |-> IF resolved.title # "" THEN resolved.title ELSE item.title,
   ImdbId |-> item.imdbId,
   TmdbId |-> IF resolved.tmdbId # 0 THEN resolved.tmdbId ELSE Undefined]

\* The null a callback returns (line 150).
NullSeries == [TvdbId |-> 0, Title |-> "", ImdbId |-> 0, TmdbId |-> Undefined]

\* A callback without the try: what the resolution throws rejects its promise.
CallbackRejectsUncaught(call) == call.threw

\* The try of lines 134-149 encloses the await of resolveIMDBToTVDB, so what the
\* resolution throws is caught and the callback's promise never rejects.
CallbackRejects(call) == FALSE

\* What the callback of an item returns once its resolution is done.
CallbackValue(item, call) ==
  IF ~call.threw /\ call.result # NullResult
  THEN Series(item, call.result)
  ELSE NullSeries

\* The batch results in the reverse of the order of the batch.
BatchResultsReversed(rs, i, its) ==
  [j \in 1..(Min(i + batchSize, Len(its)) - i) |->
     CallbackValue(its[Min(i + batchSize, Len(its)) + 1 - j],
                   rs[Min(i + batchSize, Len(its)) + 1 - j])]

\* batchResults (line 132), in the order of the batch.
BatchResults(rs, i, its) ==
  [j \in 1..(Min(i + batchSize, Len(its)) - i) |->
     CallbackValue(its[i + j], rs[i + j])]

IsSeries(r) == r # NullSeries

ConvertInit ==
  /\ cpc = "idle"
  /\ citems = <<>>
  /\ ci = 0
  /\ cresults = <<>>
  /\ cres = <<>>
  /\ overtaken = FALSE

\* A caller calls convertToSonarrFormat on n items: an empty list returns at
\* once, else the first batch starts.
ConvertCall(n) ==
  /\ cpc = "idle"
  /\ citems' = ConvertItems(n)
  /\ ci' = 0
  /\ cresults' = <<>>
  /\ cpc' = IF n = 0 THEN "done" ELSE "batch"
  /\ cres' = StartBatch([j \in 1..n |-> IdleCall], 0, ConvertItems(n), cache, now,
                        apiKeySet)
  /\ cache' = CacheAfterBatch(0, ConvertItems(n), cache, now)
  /\ overtaken' = FALSE
  /\ UNCHANGED <<now, apiKeySet>>
  /\ UNCHANGED notConvert

\* A resolution of an earlier item of the batch is still awaiting a request
\* while the resolution of item j is about to return.
Overtakes(j) ==
  \E i \in Batch(ci, Len(citems)) : i < j /\ cres[i].pc \in {"find", "ext"}

\* The find request of the resolution of item j comes back.
BatchFindReturns(j, outcome) ==
  /\ cpc = "batch"
  /\ j \in 1..Len(cres)
  /\ cres[j].pc = "find"
  /\ cres' = [cres EXCEPT ![j] = AfterFind(cres[j], outcome)]
  /\ overtaken' = (overtaken \/ (cres'[j].pc = "done" /\ Overtakes(j)))
  /\ UNCHANGED <<cpc, citems, ci, cresults, cache, now, apiKeySet>>
  /\ UNCHANGED notConvert

\* The external_ids request of the resolution of item j comes back.
BatchExtReturns(j, outcome) ==
  /\ cpc = "batch"
  /\ j \in 1..Len(cres)
  /\ cres[j].pc = "ext"
  /\ LET after == AfterExt(cres[j], outcome, cache, now)
     IN /\ cres' = [cres EXCEPT ![j] = after.call]
        /\ cache' = after.cache
  /\ overtaken' = (overtaken \/ Overtakes(j))
  /\ UNCHANGED <<cpc, citems, ci, cresults, now, apiKeySet>>
  /\ UNCHANGED notConvert

\* A batch that settles with the first of its callbacks, as Promise.race would.
BatchSettleFirstDone ==
  /\ cpc = "batch"
  /\ \E j \in Batch(ci, Len(citems)) : cres[j].pc = "done"
  /\ cresults' = cresults \o SelectSeq(BatchResults(cres, ci, citems), IsSeries)
  /\ cpc' = IF ci + batchSize < Len(citems) THEN "delay" ELSE "done"
  /\ UNCHANGED <<citems, ci, cres, overtaken, cache, now, apiKeySet>>
  /\ UNCHANGED notConvert

\* Promise.all settles (line 132): a rejected callback fails the call; else the
\* results that are not null are pushed (line 154), and the call pauses before
\* the next batch (lines 157-159) or returns (line 162).
BatchSettle ==
  /\ cpc = "batch"
  /\ \A j \in Batch(ci, Len(citems)) : cres[j].pc = "done"
  /\ IF \E j \in Batch(ci, Len(citems)) : CallbackRejects(cres[j])
     THEN /\ cpc' = "failed"
          /\ UNCHANGED cresults
     ELSE /\ cresults' = cresults \o SelectSeq(BatchResults(cres, ci, citems),
                                               IsSeries)
          /\ cpc' = IF ci + batchSize < Len(citems) THEN "delay" ELSE "done"
  /\ UNCHANGED <<citems, ci, cres, overtaken, cache, now, apiKeySet>>
  /\ UNCHANGED notConvert

\* The pause is over: i += batchSize (line 130) and the next batch starts.
PauseElapses ==
  /\ cpc = "delay"
  /\ ci' = ci + batchSize
  /\ cpc' = "batch"
  /\ cres' = StartBatch(cres, ci + batchSize, citems, cache, now, apiKeySet)
  /\ cache' = CacheAfterBatch(ci + batchSize, citems, cache, now)
  /\ UNCHANGED <<citems, cresults, overtaken, now, apiKeySet>>
  /\ UNCHANGED notConvert

\* The caller has taken the returned array.
ConvertTaken ==
  /\ cpc = "done"
  /\ cpc' = "idle"
  /\ citems' = <<>>
  /\ ci' = 0
  /\ cresults' = <<>>
  /\ cres' = <<>>
  /\ overtaken' = FALSE
  /\ UNCHANGED <<cache, now, apiKeySet>>
  /\ UNCHANGED notConvert

ConvertNext ==
  \/ \E n \in 0..MaxConvertItems : ConvertCall(n)
  \/ \E j \in 1..MaxConvertItems, outcome \in FindOutcomes :
       BatchFindReturns(j, outcome)
  \/ \E j \in 1..MaxConvertItems, outcome \in ExtOutcomes :
       BatchExtReturns(j, outcome)
  \/ BatchSettle
  \/ PauseElapses
  \/ ConvertTaken

----------------------------------------------------------------------------
\* parseIMDBType (lines 245-269).

\* \w of a regular expression, for the characters metadata is written in.
WordChars ==
  Digits \cup {"a","c","d","e","h","i","l","m","n","o","p","r","s","t","v","x",
               "E","H","M","S","T","V"}

\* \s of a regular expression.
SpaceChars == {" "}

\* \b between the characters j and j + 1 of str (before the first for j = 0,
\* after the last for j = Len(str)).
WordBoundary(str, j) ==
  (j >= 1 /\ j <= Len(str) /\ str[j] \in WordChars)
    # (j + 1 >= 1 /\ j + 1 <= Len(str) /\ str[j + 1] \in WordChars)

\* The last position of the stretch of characters of set that starts at from
\* (from - 1 when the stretch is empty).
StretchEnd(str, from, set) ==
  LET stops == {k \in from..Len(str) : str[k] \notin set}
  IN IF stops = {} THEN Len(str)
     ELSE (CHOOSE k \in stops : \A n \in stops : k <= n) - 1

\* The positions at which \b\d+ can start to match: a digit after a boundary.
NumberStarts(str) ==
  {i \in 1..Len(str) : str[i] \in Digits /\ WordBoundary(str, i - 1)}

\* word stands at position j of str, whatever the case of the letters.
WordAt(str, j, word) ==
  /\ j >= 1
  /\ j + Len(word) - 1 <= Len(str)
  /\ Lower(SubSeq(str, j, j + Len(word) - 1)) = word

\* /\b\d+\s*eps?\b/i.test(str): what follows \d+ and \s* is no digit and no
\* space, so both take their whole stretch.
EpisodeCountPattern(str) ==
  \E i \in NumberStarts(str) :
    LET k == StretchEnd(str, i, Digits)
        m == StretchEnd(str, k + 1, SpaceChars)
    IN /\ WordAt(str, m + 1, <<"e","p">>)
       /\ \/ WordBoundary(str, m + 2)
          \/ WordAt(str, m + 3, <<"s">>) /\ WordBoundary(str, m + 3)

\* /\b<word>s?\b/i.test(str)
WordPattern(str, word) ==
  \E i \in 1..(Len(str) - Len(word) + 1) :
    /\ WordBoundary(str, i - 1)
    /\ WordAt(str, i, word)
    /\ \/ WordBoundary(str, i + Len(word) - 1)
       \/ /\ WordAt(str, i + Len(word), <<"s">>)
          /\ WordBoundary(str, i + Len(word))

\* /\b\d+h(\s*\d+m)?\b/.test(str), the letters as written.
DurationPattern(str) ==
  \E i \in NumberStarts(str) :
    LET k == StretchEnd(str, i, Digits)
        m == StretchEnd(str, k + 2, SpaceChars)
        n == StretchEnd(str, m + 1, Digits)
    IN /\ k < Len(str)
       /\ str[k + 1] = "h"
       /\ \/ WordBoundary(str, k + 1)
          \/ /\ n > m
             /\ n < Len(str)
             /\ str[n + 1] = "m"
             /\ WordBoundary(str, n + 1)

Episode == <<"e","p","i","s","o","d","e">>
Season == <<"s","e","a","s","o","n">>

\* /\beps?|episodes?|seasons?\b/i.test(str): the alternatives are \beps?,
\* episodes? and seasons?\b.
ExclusionPattern(str) ==
  \/ \E i \in 1..Len(str) : WordBoundary(str, i - 1) /\ WordAt(str, i, <<"e","p">>)
  \/ Includes(Lower(str), Episode)
  \/ \E i \in 1..Len(str) :
       /\ WordAt(str, i, Season)
       /\ \/ WordBoundary(str, i + 5)
          \/ WordAt(str, i + 6, <<"s">>) /\ WordBoundary(str, i + 6)

\* A classifier that tests the duration before the episode and season words.
parseIMDBTypeDurationFirst(str) ==
  LET normalized == Lower(str)
  IN IF Includes(normalized, <<"t","v"," ","s","e","r","i","e","s">>) THEN "tvSeries"
     ELSE IF \/ Includes(normalized, <<"m","i","n","i"," ","s","e","r","i","e","s">>)
             \/ Includes(normalized, <<"m","i","n","i","-","s","e","r","i","e","s">>)
     THEN "tvMiniSeries"
     ELSE IF Includes(normalized, <<"t","v"," ","s","p","e","c","i","a","l">>)
     THEN "tvSpecial"
     ELSE IF Includes(normalized, <<"v","i","d","e","o">>) THEN "video"
     ELSE IF Includes(normalized, <<"s","h","o","r","t">>) THEN "short"
     ELSE IF DurationPattern(str) THEN "movie"
     ELSE IF EpisodeCountPattern(str) THEN "tvSeries"
     ELSE IF WordPattern(str, Episode) THEN "tvSeries"
     ELSE IF WordPattern(str, Season) THEN "tvSeries"
     ELSE "unknown"

\* parseIMDBType (lines 245-269); 'tv mini series' includes 'mini series'.
parseIMDBType(str) ==
  LET normalized == Lower(str)
  IN IF Includes(normalized, <<"t","v"," ","s","e","r","i","e","s">>) THEN "tvSeries"
     ELSE IF \/ Includes(normalized, <<"m","i","n","i"," ","s","e","r","i","e","s">>)
             \/ Includes(normalized, <<"m","i","n","i","-","s","e","r","i","e","s">>)
     THEN "tvMiniSeries"
     ELSE IF Includes(normalized, <<"t","v"," ","s","p","e","c","i","a","l">>)
     THEN "tvSpecial"
     ELSE IF Includes(normalized, <<"v","i","d","e","o">>) THEN "video"
     ELSE IF Includes(normalized, <<"s","h","o","r","t">>) THEN "short"
     ELSE IF EpisodeCountPattern(str) THEN "tvSeries"
     ELSE IF WordPattern(str, Episode) THEN "tvSeries"
     ELSE IF WordPattern(str, Season) THEN "tvSeries"
     ELSE IF DurationPattern(str) /\ ~ExclusionPattern(str) THEN "movie"
     ELSE "unknown"

\* The pieces metadata texts are written with.
Pieces ==
  {<<" ">>,
   <<"T","V"," ","S","e","r","i","e","s">>,
   <<"M","i","n","i","-","S","e","r","i","e","s">>,
   <<"T","V"," ","S","p","e","c","i","a","l">>,
   <<"V","i","d","e","o">>,
   <<"S","h","o","r","t">>,
   <<"M","o","v","i","e">>,
   <<" ","1","2"," ","e","p","s">>,
   <<"e","p">>,
   <<" ","E","p","i","s","o","d","e","s">>,
   <<" ","2"," ","s","e","a","s","o","n","s">>,
   <<" ","1","h"," ","3","0","m">>,
   <<" ","2","h">>,
   <<" ","e","p","i","c">>}

\* The texts of n pieces.
RECURSIVE TextsOf(_)
TextsOf(n) ==
  IF n = 0 THEN {<< >>}
  ELSE {text \o piece : text \in TextsOf(n - 1), piece \in Pieces}

MetadataTexts == UNION {TextsOf(n) : n \in 0..MaxPieces}

TypeInit ==
  /\ tpc = "idle"
  /\ metadata = << >>
  /\ itemType = "unknown"

\* A caller calls parseIMDBType(text).
TypeCall ==
  /\ tpc = "idle"
  /\ \E text \in MetadataTexts :
       /\ metadata' = text
       /\ itemType' = parseIMDBType(text)
  /\ tpc' = "done"
  /\ UNCHANGED notType

\* The call is over.
TypeDone ==
  /\ tpc = "done"
  /\ tpc' = "idle"
  /\ metadata' = << >>
  /\ itemType' = "unknown"
  /\ UNCHANGED notType

TypeNext ==
  \/ TypeCall
  \/ TypeDone

----------------------------------------------------------------------------
\* The reference of a fetchIMDBList call and the URL of its first page fetch
\* (lines 426-434, 370-379).

\* What follows the scheme in the URLs callers pass: the bare domain, a list, a
\* user's watchlist.
UrlHostPaths ==
  {<<"i","m","d","b",".","c","o","m">>,
   <<"w","w","w",".","i","m","d","b",".","c","o","m","/","l","i","s","t","/",
     "l","s","1">>,
   <<"w","w","w",".","i","m","d","b",".","c","o","m","/","u","s","e","r","/",
     "u","r","1","/","w","a","t","c","h","l","i","s","t">>}

\* The queries of those URLs: none, a page, a view, a repeated page.
UrlQueries ==
  {<< >>,
   <<"?","p","a","g","e","=","3">>,
   <<"?","v","i","e","w","=","g","r","i","d">>,
   <<"?","p","a","g","e","=","3","&","p","a","g","e","=","4">>}

\* The URLs callers pass: with and without a scheme, one padded with a space.
UrlInputs ==
  {scheme \o hostPath \o query :
     scheme \in Schemes \cup {<< >>}, hostPath \in UrlHostPaths, query \in UrlQueries}
    \cup {<<" ">> \o IMDB_BASE_URL \o <<"/","l","i","s","t","/","l","s","1">>}

ListInputs == ShortInputs \cup UrlInputs

ListIdInit ==
  /\ listIdOrUrl = << >>
  /\ requestedPage = 0
  /\ listInfo = NoListInfo
  /\ finalUrl = << >>
  /\ lerror = "none"

\* fetchIMDBList(input, {page}) up to the request of its first fetch:
\* parseListId, the throw for null, buildListUrl, and in fetchIMDBListPage
\* new URL(baseUrl), which throws a TypeError unless baseUrl is absolute, the
\* page and view parameters, and the URL handed to fetch.
ReferenceGiven(input, page) ==
  /\ requestedPage = 0
  /\ listIdOrUrl' = input
  /\ requestedPage' = page
  /\ listInfo' = parseListId(input)
  /\ IF parseListId(input) = NoListInfo
     THEN finalUrl' = << >> /\ lerror' = "InvalidReference"
     ELSE IF ~IsAbsoluteUrl(buildListUrl(parseListId(input)))
     THEN finalUrl' = << >> /\ lerror' = "TypeError"
     ELSE /\ finalUrl' = FinalUrl(buildListUrl(parseListId(input)), page)
          /\ lerror' = "none"
  /\ UNCHANGED notListId

\* The call is over.
ReferenceDone ==
  /\ requestedPage # 0
  /\ listIdOrUrl' = << >>
  /\ requestedPage' = 0
  /\ listInfo' = NoListInfo
  /\ finalUrl' = << >>
  /\ lerror' = "none"
  /\ UNCHANGED notListId

\* A caller calls fetchIMDBList with some reference and page.
ReferenceCall ==
  /\ requestedPage = 0
  /\ \E input \in ListInputs, page \in 1..MaxRequestPage : ReferenceGiven(input, page)

ListIdNext ==
  \/ ReferenceCall
  \/ ReferenceDone

----------------------------------------------------------------------------
\* The specifications.

Init ==
  /\ FetchInit /\ ParseInit /\ StoreInit /\ ResolveInit /\ ConvertInit
  /\ ListIdInit /\ TypeInit

\* fetchIMDBList and parseIMDBListPage never read the credential: their
\* specifications start with it set.
InitKeySet == Init /\ apiKeySet

\* fetchIMDBList alone.
SpecFetch == InitKeySet /\ [][FetchNext]_vars

\* The fetch in flight completes, with a page or with an error: the await of
\* fetchIMDBListPage returns or throws.
FetchCompletes == pending # 0 /\ pending' = 0

\* The call goes on from the head of its loop.
LoopRuns == LoopExit \/ LoopCapStop \/ LoopIssue

\* fetchIMDBList when every page fetch completes: no fetch stays in flight for
\* ever, the runtime resumes the call after each await, and the 200 ms timer
\* fires.
SpecFetchLive ==
  /\ InitKeySet
  /\ [][FetchNext]_vars
  /\ WF_pending(FetchCompletes)
  /\ WF_vars(LoopRuns)
  /\ WF_vars(DelayElapses)

\* parseIMDBListPage alone.
SpecParse == InitKeySet /\ [][ParseNext]_vars

\* One of the two operations that return collections of items: the first call
\* decides which one runs.
CollectionsNext ==
  \/ ppc = "idle" /\ \E ref \in References, o \in FetchOptions : FetchCall(ref, o)
  \/ \E size \in SourceSizes :
       \E total \in {0, size, MaxSourcePages * ITEMS_PER_PAGE} :
         FirstPageArrives(size, total)
  \/ \E failure \in FetchFailures : FirstPageFails(failure)
  \/ LoopExit
  \/ LoopCapStop
  \/ LoopIssue
  \/ \E kind \in PageKinds : PageArrives(kind)
  \/ \E failure \in FetchFailures : PageFails(failure)
  \/ DelayElapses
  \/ fpc = "idle" /\ \E blob \in {"absent", "malformed", "parsed"} : ParseCall(blob)
  \/ \E node \in BlobNodes : BlobNode(node)
  \/ BlobEnd
  \/ \E a \in Anchors : Anchor(a)
  \/ AnchorsEnd
  \/ \E e \in LdEntries : LdEntry(e)
  \/ \E why \in {"notItemList", "throws"} : LdBlockSkipped(why)
  \/ ParseReturn

SpecCollections == InitKeySet /\ [][CollectionsNext]_vars

\* Direct calls of resolveIMDBToTVDB, flushes of the cache and the clock.
SpecResolve == Init /\ [][ResolveNext]_vars

\* Calls of convertToSonarrFormat, one at a time.
SpecConvert == Init /\ [][ConvertNext]_vars

\* The references of fetchIMDBList calls.
SpecListId == InitKeySet /\ [][ListIdNext]_vars

\* Calls of parseIMDBType.
SpecType == InitKeySet /\ [][TypeNext]_vars

----------------------------------------------------------------------------
\* Claims about fetchIMDBList.

\* Every page received so far was the source's own page.
AllCanon == \A j \in 1..Len(recvLog) : recvLog[j] = "canon"

\* The call is over, it ran in fetch-all mode without a cap, and the source was
\* well formed: it holds the T > 0 items its first page declares, 250 per page.
C1_Case ==
  /\ fpc = "done"
  /\ FetchAllMode(options)
  /\ options.maxItems = Undefined
  /\ totalItems > 0
  /\ srcSize = totalItems
  /\ AllCanon

C2_CapRespected ==
  (fpc = "done" /\ options.maxItems >= 1) => Len(fresult.items) <= options.maxItems

\* The number of distinct items the call gathered.
Gathered == IF Len(allItems) > 0 THEN Len(allItems) ELSE Len(fresult.items)

\* C3: in fetch-all mode with a cap M no page fetch is started once M items are
\* accumulated, the output has exactly M items when at least M distinct items
\* were gathered, and the well-formed 1000-item source with M = 500 gives exactly
\* 500 items after exactly 2 page fetches.
C3_CapStopsAndTrims ==
  (FetchAllMode(options) /\ options.maxItems >= 1) =>
    /\ fpc = "page" => Len(allItems) < options.maxItems
    /\ (fpc = "done" /\ Gathered >= options.maxItems) =>
         Len(fresult.items) = options.maxItems
    /\ (/\ fpc = "done" /\ AllCanon
        /\ srcSize = 4 * ITEMS_PER_PAGE /\ totalItems = srcSize
        /\ options.maxItems = 2 * ITEMS_PER_PAGE) =>
         (Len(fresult.items) = 2 * ITEMS_PER_PAGE /\ Len(fetchLog) = 2)

\* What holds of C3 on the code: the same statement for the calls that went past
\* the first page (more than one page exists).
C3_BeyondFirstPage ==
  (FetchAllMode(options) /\ options.maxItems >= 1 /\ totalPages > 1) =>
    C3_CapStopsAndTrims

\* No primary id occurs twice.
NoDup(its) == Cardinality(Ids(its)) = Len(its)

\* C9: every collection parseIMDBListPage or fetchIMDBList builds or returns holds
\* each primaryId at most once, however many nodes, anchors, entries or pages
\* mention it.
C9_UniqueIds ==
  /\ NoDup(items)
  /\ NoDup(allItems)
  /\ NoDup(fresult.items)

\* A later page repeated ids of an earlier one and the call still returned more
\* than one page of items.
C9_Witness ==
  /\ fpc = "done"
  /\ \E j \in 1..Len(recvLog) : recvLog[j] = "overlap"
  /\ Len(fresult.items) > ITEMS_PER_PAGE

\* The same case in parseIMDBListPage: the page is parsed, and an id that the blob
\* or the anchors delivered was met again by the linked-data pass.
C9_ParseCase == ppc = "done" /\ ldKeptConcrete /\ Len(items) = NumPageIds

\* C10: within parseIMDBListPage an item whose contentType is concrete (not
\* unknown) keeps a concrete contentType in every later step.
C10_NoDowngrade ==
  [][\A k \in 1..Len(items) :
       items[k].type # "unknown" =>
         /\ k <= Len(items')
         /\ items'[k].imdbId = items[k].imdbId
         /\ items'[k].type # "unknown"]_vars

\* The page is parsed, and a linked-data entry of type unknown met an item whose
\* type was concrete.
C10_Witness == ppc = "done" /\ ldKeptConcrete

----------------------------------------------------------------------------
\* Claims about resolveIMDBToTVDB and the cache.

\* Call s starts in this step.
Starts(s) == calls[s].pc = "idle" /\ calls'[s].pc # "idle"

\* Call s returns in this step from awaiting a request.
Returns(s) == calls[s].pc \in {"find", "ext"} /\ calls'[s].pc = "done"

\* A resolution of id has looked it up successfully no longer than the TTL ago,
\* and the cache has not been flushed since.
Fresh(id) == lastOk[id].at # Undefined /\ now <= lastOk[id].at + StdTTL

\* C4: a call of resolveIMDBToTVDB(id) made after a resolution of id has looked
\* it up successfully, no longer than the TTL ago and with no flush since, sends
\* no request and returns what that resolution returned; and when a call returns
\* a result it has looked up, the cache holds that result for id.
C4_CachedAnswer ==
  [][\A s \in Slots :
       /\ (Starts(s) /\ Fresh(calls'[s].id)) =>
            /\ calls'[s].pc = "done"
            /\ calls'[s].hit
            /\ ~calls'[s].threw
            /\ calls'[s].nfind = 0
            /\ calls'[s].next = 0
            /\ calls'[s].result = lastOk[calls'[s].id].v
       /\ (Returns(s) /\ calls'[s].result # NullResult) =>
            CacheGet(cache', calls[s].id, now') = calls'[s].result]_vars

\* A call was answered from the cache, within the TTL of the lookup that filled
\* it and after time has passed since.
C4_Witness ==
  \E s \in Slots :
    /\ calls[s].pc = "done"
    /\ calls[s].hit
    /\ calls[s].nfind = 0
    /\ Fresh(calls[s].id)
    /\ lastOk[calls[s].id].at < now

\* C5: the first call of resolveIMDBToTVDB(id) after a flush, for an id that was
\* cached when the cache was flushed, is not answered from the cache: with the
\* credential set it sends the find request.
C5_FlushForcesLookup ==
  [][\A s \in Slots :
       (Starts(s) /\ calls'[s].id \in flushedIds /\ apiKeySet) =>
         (calls'[s].pc = "find" /\ ~calls'[s].hit /\ calls'[s].nfind = 1)]_vars

\* The same, for the calls before which no resolution has written the id back
\* since the flush.
C5_UnlessWrittenBack ==
  [][\A s \in Slots :
       (/\ Starts(s)
        /\ calls'[s].id \in flushedIds
        /\ lastOk[calls'[s].id].at = Undefined
        /\ apiKeySet) =>
         (calls'[s].pc = "find" /\ ~calls'[s].hit /\ calls'[s].nfind = 1)]_vars

\* C6 as stated: when resolveIMDBToTVDB(id) returns not-found, the cache holds no
\* entry for id.
C6_NoEntryAfterNotFound ==
  [][\A s \in Slots :
       (Returns(s) /\ calls'[s].result = NullResult) =>
         CacheGet(cache', calls[s].id, now') = NullResult]_vars

\* C6: a call of resolveIMDBToTVDB that returns not-found leaves the cache as it
\* is, and a call that finds no live entry for its id sends the find request
\* (with the credential set).
C6_FailureWritesNothing ==
  [][\A s \in Slots :
       /\ (Returns(s) /\ calls'[s].result = NullResult) => cache' = cache
       /\ (/\ Starts(s)
           /\ apiKeySet
           /\ CacheGet(cache, calls'[s].id, now) = NullResult) =>
            (calls'[s].pc = "find" /\ calls'[s].nfind = 1)]_vars

\* A call has returned not-found after both requests, and the cache holds nothing
\* for its id.
C6_Witness ==
  \E s \in Slots :
    /\ calls[s].pc = "done"
    /\ ~calls[s].threw
    /\ calls[s].result = NullResult
    /\ calls[s].next = 1
    /\ CacheGet(cache, calls[s].id, now) = NullResult

----------------------------------------------------------------------------
\* Claims about convertToSonarrFormat.

\* The resolutions of the call that have sent a request and await its answer.
InFlight == {j \in 1..Len(cres) : cres[j].pc \in {"find", "ext"}}

\* C7: at most batchSize (5) resolutions of one convertToSonarrFormat call are
\* in flight at any moment.
C7_AtMostFiveInFlight == Cardinality(InFlight) <= batchSize

\* A list longer than one batch with a full batch in flight.
C7_Witness == Len(citems) > batchSize /\ Cardinality(InFlight) = batchSize

\* The records of the items 1..n whose resolution returned a result, in order.
RECURSIVE Resolved(_)
Resolved(n) ==
  IF n = 0 THEN <<>>
  ELSE IF ~cres[n].threw /\ cres[n].result # NullResult
  THEN Append(Resolved(n - 1), Series(citems[n], cres[n].result))
  ELSE Resolved(n - 1)

\* C8: convertToSonarrFormat does not fail when resolutions return not-found or
\* throw; its output holds no null, is no longer than its input, and on return
\* is exactly the records of the items that resolved, in input order.
C8_FailuresOmitted ==
  /\ cpc # "failed"
  /\ Len(cresults) <= Len(citems)
  /\ \A k \in 1..Len(cresults) : cresults[k] # NullSeries
  /\ cpc = "done" => cresults = Resolved(Len(citems))

\* A call has returned some records, fewer than items, one item having come back
\* not-found from its lookup.
C8_Witness ==
  /\ cpc = "done"
  /\ Len(cresults) > 0
  /\ Len(cresults) < Len(citems)
  /\ \E j \in 1..Len(cres) :
       cres[j].nfind = 1 /\ ~cres[j].threw /\ cres[j].result = NullResult

\* The same with the credential unset: every resolution threw and the call
\* returned the empty array.
C8_ThrowCase ==
  /\ cpc = "done"
  /\ Len(citems) > batchSize
  /\ \A j \in 1..Len(cres) : cres[j].threw
  /\ cresults = <<>>

----------------------------------------------------------------------------
\* Claims about parseIMDBListPage.

\* C11: parseIMDBListPage never raises: a blob that is absent, empty or not JSON
\* leaves items empty for the anchor scan, a blob that was not JSON contributes
\* no item to the result, and a linked-data block that is skipped leaves the
\* function in the linked-data pass, from which it returns.
C11_NeverRaises ==
  [][/\ ppc' # "raised"
     /\ (ppc = "idle" /\ ppc' \notin {"idle", "blob"}) =>
          (ppc' = "anchors" /\ items' = << >>)
     /\ blobFailed' => \A k \in 1..Len(items') : items'[k].title # "Blob title"
     /\ ppc = "jsonld" => ppc' \in {"jsonld", "done"}]_vars

\* The function has returned after a blob that was not JSON, with one item from
\* the anchor scan and one from the linked data.
C11_Witness ==
  /\ ppc = "done"
  /\ blobFailed
  /\ \E k \in 1..Len(items) : items[k].title = "Anchor title"
  /\ \E k \in 1..Len(items) : items[k].title = "Ld name"

----------------------------------------------------------------------------
\* More claims about fetchIMDBList.

\* The fetch of a page k >= 2 has failed: the last answer received is a failure
\* and it is not the first answer.
LaterPageFailed ==
  Len(recvLog) >= 2 /\ recvLog[Len(recvLog)] \in FetchFailures

\* C12: in fetch-all mode, when the fetch of a page k >= 2 fails, fetchIMDBList
\* does not fail: it has returned, no fetch follows the failed one, and the result
\* is the items gathered from the pages 1..k-1 (on a source whose pages were its
\* own and without a cap: the first items of the source, as far as those pages
\* reach).
C12_LaterFailureKeepsGathered ==
  LaterPageFailed =>
    /\ FetchAllMode(options)
    /\ fpc = "done"
    /\ ferror = "none"
    /\ pending = 0
    /\ Len(fetchLog) = Len(recvLog)
    /\ fresult.items = allItems
    /\ ((\A j \in 1..(Len(recvLog) - 1) : recvLog[j] = "canon")
          /\ options.maxItems = Undefined) =>
         Ids(fresult.items) =
           1..Min(srcSize, (Len(recvLog) - 1) * ITEMS_PER_PAGE)

\* The fetch of page 3 failed and the call returned the 500 items of pages 1, 2.
C12_Witness ==
  /\ LaterPageFailed
  /\ fpc = "done"
  /\ Len(recvLog) = 3
  /\ Len(fresult.items) = 2 * ITEMS_PER_PAGE

\* A page k >= 2 has arrived last and contributed no id that was not collected.
LaterPageNothingNew ==
  /\ Len(recvLog) >= 2
  /\ recvLog[Len(recvLog)] \notin FetchFailures
  /\ addedLast = 0

\* C13: in fetch-all mode, when a fetched page k >= 2 contributes no new id, the
\* aggregation ends: the call has returned, no page after k is fetched, and the
\* result is the items gathered so far.
C13_NothingNewEndsData ==
  LaterPageNothingNew =>
    /\ FetchAllMode(options)
    /\ fpc = "done"
    /\ ferror = "none"
    /\ Len(fetchLog) = Len(recvLog)
    /\ fresult.items = allItems

\* Page 2 repeated page 1: the call returned the 250 items of page 1 after two
\* fetches although the list declares four pages.
C13_Witness ==
  /\ LaterPageNothingNew
  /\ fpc = "done"
  /\ recvLog = <<"canon", "first">>
  /\ totalPages = 4
  /\ fetchLog = <<1, 2>>
  /\ Len(fresult.items) = ITEMS_PER_PAGE

\* C14: when the first page fetch answers 404 the call fails with the not-found
\* error, when it answers another non-success status it fails with the error
\* that carries the status; the call has failed after its one fetch and has
\* returned nothing.
C14_FirstPageStatusErrors ==
  /\ recvLog = <<"404">> =>
       /\ fpc = "failed"
       /\ ferror = "NotFound"
       /\ fresult = NoResult
       /\ Len(fetchLog) = 1
  /\ recvLog = <<"500">> =>
       /\ fpc = "failed"
       /\ ferror = "HTTP error 500"
       /\ fresult = NoResult
       /\ Len(fetchLog) = 1

\* The first page fetch answered 404 and the call failed with not-found.
C14_Witness == recvLog = <<"404">> /\ fpc = "failed" /\ ferror = "NotFound"

\* The first page fetch answered 500 and the call failed with that status.
C14_OtherStatus == recvLog = <<"500">> /\ fpc = "failed" /\ ferror = "HTTP error 500"

\* C15: fetchIMDBList called with a reference that parseListId rejects has
\* failed with the invalid-reference error without a page fetch: none was issued,
\* none is pending, nothing was received or returned.
C15_InvalidReferenceNoFetch ==
  reference \in InvalidReferences =>
    /\ fpc = "failed"
    /\ ferror = "InvalidReference"
    /\ fetchLog = << >>
    /\ pending = 0
    /\ recvLog = << >>
    /\ fresult = NoResult

\* The call with the title id tt1 has failed, no fetch issued.
C15_Witness ==
  /\ reference = <<"t","t","1">>
  /\ fpc = "failed"
  /\ ferror = "InvalidReference"
  /\ fetchLog = << >>

\* C16: a call with fetchAll = false and no page number issues one page fetch,
\* of page 1, and none after it; once it has returned, its result is the items
\* of the first page of the source, whatever total that page declared.
C16_OnePageWhenNotFetchAll ==
  (options.fetchAll = "false" /\ options.page = Undefined
     /\ reference \notin InvalidReferences /\ fpc # "idle") =>
    /\ fetchLog = <<1>>
    /\ fpc \in {"first", "done", "failed"}
    /\ fpc = "done" =>
         /\ recvLog = <<"canon">>
         /\ fresult.items = CanonPage(srcSize, 1)
         /\ Len(fresult.items) = Min(srcSize, ITEMS_PER_PAGE)

\* The call with fetchAll = false on the 1000-item source that declares 1000
\* items has returned the 250 items of page 1 after one fetch.
C16_Witness ==
  /\ options.fetchAll = "false"
  /\ options.page = Undefined
  /\ fpc = "done"
  /\ srcSize = 4 * ITEMS_PER_PAGE
  /\ totalItems = 4 * ITEMS_PER_PAGE
  /\ fetchLog = <<1>>
  /\ Len(fresult.items) = ITEMS_PER_PAGE
  /\ fresult.items[1].imdbId = 1
  /\ fresult.items[ITEMS_PER_PAGE].imdbId = ITEMS_PER_PAGE

C18_FindThenExternalIds ==
  \A s \in Slots :
    LET call == calls[s]
    IN (call.pc # "idle" /\ ~call.hit /\ ~call.threw) =>
         /\ call.nfind = 1
         /\ call.pc = "find" => call.next = 0 /\ call.findResult = NoFind
         /\ call.pc = "ext" =>
              /\ call.next = 1
              /\ call.findResult =
                   [tmdbId |-> TmdbOf(call.id), name |-> NameOf(call.id)]
         /\ (call.pc = "done" /\ call.findResult = NoFind) =>
              call.next = 0 /\ call.result = NullResult
         /\ (call.pc = "done" /\ call.findResult # NoFind) =>
              /\ call.next = 1
              /\ call.result =
                   IF call.externalIds # 0
                   THEN [tvdbId |-> call.externalIds,
                         tmdbId |-> call.findResult.tmdbId,
                         title |-> call.findResult.name]
                   ELSE NullResult
         /\ (call.pc = "done" /\ call.result # NullResult) =>
              /\ call.nfind + call.next = 2
              /\ call.result.tvdbId = TvdbOf(TmdbOf(call.id))

\* A resolution has succeeded with one find and one external_ids request.
C18_Witness ==
  \E s \in Slots :
    /\ calls[s].pc = "done"
    /\ ~calls[s].hit
    /\ calls[s].result =
         [tvdbId |-> TvdbOf(TmdbOf(calls[s].id)), tmdbId |-> TmdbOf(calls[s].id),
          title |-> NameOf(calls[s].id)]
    /\ calls[s].nfind = 1
    /\ calls[s].next = 1

\* A resolution has returned not-found after find gave no candidate, and one
\* after external_ids gave no tvdb id.
C18_NotFoundCases ==
  \E s, r \in Slots :
    /\ calls[s].pc = "done" /\ ~calls[s].threw /\ ~calls[s].hit
    /\ calls[s].findResult = NoFind /\ calls[s].next = 0
    /\ calls[r].pc = "done" /\ calls[r].findResult # NoFind
    /\ calls[r].next = 1 /\ calls[r].result = NullResult

\* C19: while the credential is unset, a call of resolveIMDBToTVDB for an id the
\* cache does not hold has thrown the configuration error without a find or an
\* external_ids request sent, a call throws for no other reason, and clearCache
\* can be called (the module state exists and the cache is read and flushed
\* without the credential).
C19_MissingCredentialAtResolution ==
  /\ \A s \in Slots :
       /\ calls[s].threw => (~apiKeySet /\ ~calls[s].hit /\ calls[s].pc = "done")
       /\ (~apiKeySet /\ calls[s].pc # "idle" /\ ~calls[s].hit) =>
            /\ calls[s].pc = "done"
            /\ calls[s].threw
            /\ calls[s].result = NullResult
            /\ calls[s].nfind = 0
            /\ calls[s].next = 0
  /\ ~apiKeySet => ENABLED clearCache

\* Without the credential a resolution has thrown, no request sent, the cache
\* read and left empty.
C19_Witness ==
  /\ ~apiKeySet
  /\ cache = EmptyCache
  /\ \E s \in Slots :
       /\ calls[s].pc = "done"
       /\ calls[s].threw
       /\ calls[s].nfind = 0
       /\ calls[s].next = 0

\* C20: a call of convertToSonarrFormat on a non-empty list, made while the
\* credential is unset, does not return normally: once it has ended, it has
\* ended with the configuration error.
C20_MissingCredentialSurfaced ==
  (~apiKeySet /\ Len(citems) > 0 /\ cpc \in {"done", "failed"}) => cpc = "failed"

----------------------------------------------------------------------------
\* More claims about resolveIMDBToTVDB and convertToSonarrFormat.

\* C21: a call of resolveIMDBToTVDB whose find or external_ids request came
\* back with a status that is not ok, or did not come back, has returned
\* not-found; with the credential set no call throws.
C21_LookupFailureIsNotFound ==
  \A s \in Slots :
    /\ apiKeySet => ~calls[s].threw
    /\ calls[s].lookupFailed =>
         /\ calls[s].pc = "done"
         /\ ~calls[s].threw
         /\ calls[s].result = NullResult

\* One call has returned not-found after its find request failed, another
\* after its external_ids request failed.
C21_Witness ==
  \E s, r \in Slots :
    /\ calls[s].pc = "done" /\ calls[s].lookupFailed
    /\ calls[s].nfind = 1 /\ calls[s].next = 0
    /\ calls[s].result = NullResult
    /\ calls[r].pc = "done" /\ calls[r].lookupFailed
    /\ calls[r].nfind = 1 /\ calls[r].next = 1
    /\ calls[r].result = NullResult

\* The items whose batch has settled and was appended to results.
Settled ==
  CASE cpc \in {"delay", "done"} -> Min(ci + batchSize, Len(citems))
    [] cpc \in {"batch", "failed"} -> ci
    [] OTHER -> 0

\* The positions among 1..n of the items whose resolution returned a result.
RECURSIVE ResolvedAt(_)
ResolvedAt(n) ==
  IF n = 0 THEN <<>>
  ELSE IF ~cres[n].threw /\ cres[n].result # NullResult
  THEN Append(ResolvedAt(n - 1), n)
  ELSE ResolvedAt(n - 1)

\* C22: the records output by convertToSonarrFormat are, one for one and in
\* order, those of the items of the settled batches whose resolution returned
\* a result: TvdbId is the tvdb id the resolution returned, the one the service
\* has for the item's show; ImdbId is the item's imdbId; Title is the name the
\* service has for the show, the item's own title when that name is empty;
\* TmdbId is the id of the candidate that find gave.
C22_RecordPerResolvedItem ==
  LET at == ResolvedAt(Settled)
  IN /\ Len(cresults) = Len(at)
     /\ \A k \in 1..Len(cresults) :
          LET item == citems[at[k]]
              resolved == cres[at[k]].result
          IN /\ cresults[k].TvdbId = resolved.tvdbId
             /\ cresults[k].TvdbId = TvdbOf(TmdbOf(item.imdbId))
             /\ cresults[k].ImdbId = item.imdbId
             /\ cresults[k].Title =
                  (IF NameOf(item.imdbId) = "" THEN item.title
                   ELSE NameOf(item.imdbId))
             /\ cresults[k].TmdbId = TmdbOf(item.imdbId)

\* A call has returned two records, one with the name of the show and one,
\* the name being empty, with the title of the item, after an item in between
\* was dropped.
C22_Witness ==
  /\ cpc = "done"
  /\ Len(citems) >= 3
  /\ Len(cresults) = 2
  /\ cresults[1] = [TvdbId |-> TvdbOf(TmdbOf(1)), Title |-> "Show", ImdbId |-> 1,
                     TmdbId |-> TmdbOf(1)]
  /\ cresults[2] = [TvdbId |-> TvdbOf(TmdbOf(2)), Title |-> "Item", ImdbId |-> 2,
                     TmdbId |-> TmdbOf(2)]
  /\ cres[2].result = NullResult
  /\ cres[1].nfind = 1

----------------------------------------------------------------------------
\* Claims about parseListId and the URL that is fetched.

\* A string that consists of pre and then one digit or more.
MatchesId(str, pre) ==
  /\ Len(str) > Len(pre)
  /\ SubSeq(str, 1, Len(pre)) = pre
  /\ \A j \in (Len(pre) + 1)..Len(str) : str[j] \in Digits

\* A string that names the domain of the source site.
NamesDomain(str) ==
  \E j \in 1..(Len(str) - 7) :
    SubSeq(str, j, j + 7) = <<"i","m","d","b",".","c","o","m">>

\* C23: for an input matching ^ur\d+$ parseListId returns the user reference
\* with that id, for an input matching ^ls\d+$ the list reference with that id,
\* and for every other input that does not name the domain null.
C23_ListIdByPattern ==
  requestedPage # 0 =>
    /\ MatchesId(listIdOrUrl, <<"u","r">>) =>
         listInfo = [type |-> "user", id |-> listIdOrUrl]
    /\ MatchesId(listIdOrUrl, <<"l","s">>) =>
         listInfo = [type |-> "list", id |-> listIdOrUrl]
    /\ (/\ ~MatchesId(listIdOrUrl, <<"u","r">>)
        /\ ~MatchesId(listIdOrUrl, <<"l","s">>)
        /\ ~NamesDomain(listIdOrUrl)) => listInfo = NoListInfo

\* The input without the spaces around it.
Core(str) ==
  LET lead == Cardinality({j \in 1..Len(str) : \A k \in 1..j : str[k] = " "})
      trail == Cardinality({j \in 1..Len(str) : \A k \in j..Len(str) : str[k] = " "})
  IN IF lead = Len(str) THEN << >> ELSE SubSeq(str, lead + 1, Len(str) - trail)

\* C23 as amended: for an input that without the whitespace around it matches
\* ^ur\d+$ parseListId returns the user reference with that trimmed id, for one
\* that so matches ^ls\d+$ the list reference with that trimmed id, and for
\* every other input that does not name the domain null.
C23_TrimmedIdByPattern ==
  requestedPage # 0 =>
    /\ MatchesId(Core(listIdOrUrl), <<"u","r">>) =>
         listInfo = [type |-> "user", id |-> Core(listIdOrUrl)]
    /\ MatchesId(Core(listIdOrUrl), <<"l","s">>) =>
         listInfo = [type |-> "list", id |-> Core(listIdOrUrl)]
    /\ (/\ ~MatchesId(Core(listIdOrUrl), <<"u","r">>)
        /\ ~MatchesId(Core(listIdOrUrl), <<"l","s">>)
        /\ ~NamesDomain(listIdOrUrl)) => listInfo = NoListInfo

\* The input ls1 followed by a space was given and the list reference ls1
\* returned.
C23_Witness ==
  /\ listIdOrUrl = <<"l","s","1"," ">>
  /\ listInfo = [type |-> "list", id |-> <<"l","s","1">>]

\* C24: an input that names the domain is returned by parseListId as the URL
\* reference whose id is the whole input, and the URL of the fetch of page 1
\* is that input.
C24_UrlOpaqueAndFetched ==
  (requestedPage = 1 /\ NamesDomain(listIdOrUrl)) =>
    /\ listInfo = [type |-> "url", id |-> listIdOrUrl]
    /\ finalUrl = listIdOrUrl

\* A string that starts with http:// or https:// and goes on with a host.
HasSchemeAndHost(str) ==
  \E n \in {7, 8} :
    /\ Len(str) > n
    /\ SubSeq(str, 1, n) \in {<<"h","t","t","p",":","/","/">>,
                               <<"h","t","t","p","s",":","/","/">>}
    /\ str[n + 1] \notin {"/", "?", " "}

\* The URL str with the path / when it has none after its host, and with
\* view=detail added to its query when that has no view parameter.
WithDetailView(str) ==
  LET mark == IndexOf(str, "?")
      front == IF mark = 0 THEN str ELSE SubSeq(str, 1, mark - 1)
      query == IF mark = 0 THEN << >> ELSE SubSeq(str, mark + 1, Len(str))
      slashes == Cardinality({j \in 1..Len(front) : front[j] = "/"})
      view == <<"v","i","e","w","=">>
      hasView == \/ SubSeq(query, 1, Min(5, Len(query))) = view
                 \/ Includes(query, <<"&">> \o view)
  IN (IF slashes = 2 THEN Append(front, "/") ELSE front)
       \o <<"?">> \o query
       \o (IF hasView THEN << >>
           ELSE (IF query = << >> THEN << >> ELSE <<"&">>)
                  \o view \o <<"d","e","t","a","i","l">>)

\* C24 as amended: an input that names the domain is returned by parseListId
\* as the URL reference whose id is the whole input without the whitespace
\* around it, query included, never as a user or list id found inside it; when
\* that id is an absolute URL, the URL of the fetch of page 1 is that URL with
\* its own query parameters kept and view=detail added when it has no view
\* parameter, and otherwise no fetch is made.
C24_UrlKeptViewAdded ==
  (requestedPage = 1 /\ NamesDomain(listIdOrUrl)) =>
    /\ listInfo = [type |-> "url", id |-> Core(listIdOrUrl)]
    /\ IF HasSchemeAndHost(Core(listIdOrUrl))
       THEN lerror = "none" /\ finalUrl = WithDetailView(Core(listIdOrUrl))
       ELSE lerror = "TypeError" /\ finalUrl = << >>

\* The URL of list ls1 with the query page=3 was given with page 1: the
\* reference is the URL, and the URL fetched is it with view=detail after its
\* own page parameter.
C24_Witness ==
  /\ requestedPage = 1
  /\ listIdOrUrl = IMDB_BASE_URL \o <<"/","l","i","s","t","/","l","s","1",
                                      "?","p","a","g","e","=","3">>
  /\ listInfo = [type |-> "url", id |-> listIdOrUrl]
  /\ finalUrl = listIdOrUrl \o <<"&","v","i","e","w","=","d","e","t","a","i","l">>

\* The same URL with the query view=grid is fetched as it was given.
C24_Unchanged ==
  /\ requestedPage = 1
  /\ listIdOrUrl = IMDB_BASE_URL \o <<"/","l","i","s","t","/","l","s","1",
                                      "?","v","i","e","w","=","g","r","i","d">>
  /\ finalUrl = listIdOrUrl

----------------------------------------------------------------------------
\* Claims about parseIMDBType.

\* Rule 6 or 7 accepts the text: an episode count, the word episode(s), the
\* word season(s).
EpisodeOrSeason(str) ==
  \/ EpisodeCountPattern(str)
  \/ WordPattern(str, Episode)
  \/ WordPattern(str, Season)

\* The keywords of rules 1-5 with the types they stand for, in the order of
\* the rules.
TypeKeywords ==
  <<[word |-> <<"t","v"," ","s","e","r","i","e","s">>, type |-> "tvSeries"],
    [word |-> <<"t","v"," ","m","i","n","i"," ","s","e","r","i","e","s">>,
     type |-> "tvMiniSeries"],
    [word |-> <<"m","i","n","i"," ","s","e","r","i","e","s">>, type |-> "tvMiniSeries"],
    [word |-> <<"m","i","n","i","-","s","e","r","i","e","s">>, type |-> "tvMiniSeries"],
    [word |-> <<"t","v"," ","s","p","e","c","i","a","l">>, type |-> "tvSpecial"],
    [word |-> <<"v","i","d","e","o">>, type |-> "video"],
    [word |-> <<"s","h","o","r","t">>, type |-> "short"]>>

\* The keywords that occur in the text, whatever the case of its letters.
KeywordsIn(str) ==
  {k \in 1..Len(TypeKeywords) : Includes(Lower(str), TypeKeywords[k].word)}

\* C25: a metadata text with an episode count (or the word episode(s)) and a
\* duration is classified tvSeries.
C25_EpisodesAndDurationIsSeries ==
  (/\ tpc = "done"
   /\ EpisodeCountPattern(metadata) \/ WordPattern(metadata, Episode)
   /\ DurationPattern(metadata)) => itemType = "tvSeries"

\* C25 as amended: a metadata text with an episode count (or the word
\* episode(s)) and a duration is never classified movie, and is classified
\* tvSeries when it holds none of the keywords of rules 1-5.
C25_EpisodesBeforeDuration ==
  (/\ tpc = "done"
   /\ EpisodeCountPattern(metadata) \/ WordPattern(metadata, Episode)
   /\ DurationPattern(metadata)) =>
    /\ itemType # "movie"
    /\ KeywordsIn(metadata) = {} => itemType = "tvSeries"

\* The text ' 12 eps 1h 30m' was classified tvSeries.
C25_Witness ==
  /\ tpc = "done"
  /\ metadata = <<" ","1","2"," ","e","p","s"," ","1","h"," ","3","0","m">>
  /\ itemType = "tvSeries"

\* The type of the first rule of the classifier that accepts the text, rule 8
\* being a duration in a text that rules 6 and 7 do not accept.
FirstMatch(str) ==
  IF KeywordsIn(str) # {}
  THEN TypeKeywords[CHOOSE k \in KeywordsIn(str) : \A j \in KeywordsIn(str) : k <= j].type
  ELSE IF EpisodeCountPattern(str) \/ WordPattern(str, Episode) THEN "tvSeries"
  ELSE IF WordPattern(str, Season) THEN "tvSeries"
  ELSE IF DurationPattern(str) /\ ~EpisodeOrSeason(str) THEN "movie"
  ELSE "unknown"

\* C26: the result of parseIMDBType is the type of the first rule that accepts
\* the text, in the order tv series, mini series, tv special, video, short,
\* episode count or word episode(s), word season(s), duration without episode
\* or season, otherwise unknown.
C26_FirstMatchWins ==
  tpc = "done" => itemType = FirstMatch(metadata)

\* C27: a text that rules 1-7 do not accept and that holds a duration is
\* classified movie: the exclusion of rule 8 rejects the texts that rules 6-7
\* accept and no other.
C27_DurationIsMovie ==
  (/\ tpc = "done"
   /\ KeywordsIn(metadata) = {}
   /\ ~EpisodeOrSeason(metadata)
   /\ DurationPattern(metadata)) => itemType = "movie"

\* What holds of the code: such a text is classified movie unless the
\* exclusion as written accepts it, and then unknown.
C27_AsWritten ==
  (/\ tpc = "done"
   /\ KeywordsIn(metadata) = {}
   /\ ~EpisodeOrSeason(metadata)
   /\ DurationPattern(metadata)) =>
    itemType = (IF ExclusionPattern(metadata) THEN "unknown" ELSE "movie")

\* Apart from the texts of C27 that the exclusion as written accepts, the
\* result is the type of the first rule that accepts the text.
C26_ExceptExclusion ==
  (/\ tpc = "done"
   /\ ~(/\ KeywordsIn(metadata) = {}
        /\ ~EpisodeOrSeason(metadata)
        /\ DurationPattern(metadata)
        /\ ExclusionPattern(metadata))) => itemType = FirstMatch(metadata)

----------------------------------------------------------------------------
\* Claims about the linked-data pass of parseIMDBListPage.

\* C28: the linked-data pass leaves the contentType of an item that the blob or
\* the anchors gave a concrete contentType as it is, whatever type the
\* linked-data entry declares; it changes the contentType only of items whose
\* contentType is unknown.
C28_ConcreteTypeUnchanged ==
  [][ppc = "jsonld" =>
       \A k \in 1..Len(items) :
         items[k].type # "unknown" =>
           /\ k <= Len(items')
           /\ items'[k].type = items[k].type]_vars

\* The types a linked-data entry can declare apart from unknown (lines 694-703).
LdConcreteTypes == {"tvMiniSeries", "tvSeries", "movie"}

\* What holds of the code: the contentType of an item changes in the
\* linked-data pass only, and only to the concrete type a linked-data entry
\* declares, be the item's own type unknown or concrete.
C28_TypeReplacedByLdType ==
  [][\A k \in 1..Len(items) :
       /\ k <= Len(items')
       /\ items'[k].imdbId = items[k].imdbId
       /\ items'[k].type # items[k].type =>
            /\ ppc = "jsonld"
            /\ items'[k].type \in LdConcreteTypes]_vars

\* The page is parsed, and the linked-data pass gave an item of the blob, whose
\* type was concrete, the type tvSeries of its entry.
C28_Witness ==
  /\ ppc = "done"
  /\ ldOverwroteConcrete
  /\ \E k \in 1..Len(items) :
       items[k].title = "Blob title" /\ items[k].type = "tvSeries"

----------------------------------------------------------------------------
\* Claims about the batches of convertToSonarrFormat.

\* The position of the last item of the batch at hand.
LastOfBatch == Min(ci + batchSize, Len(citems))

\* The batches up to the one at hand are where the loop has them: the items of
\* earlier batches are resolved and their records appended, the items of later
\* batches are not started, and the call pauses only with a batch left.
BatchesInSequence ==
  /\ \A j \in 1..Len(cres) :
       /\ j <= ci => cres[j].pc = "done"
       /\ j > ci + batchSize => cres[j].pc = "idle"
  /\ cpc = "batch" => cresults = Resolved(ci)
  /\ cpc \in {"delay", "done"} =>
       /\ \A j \in 1..LastOfBatch : cres[j].pc = "done"
       /\ cresults = Resolved(LastOfBatch)
  /\ cpc = "delay" => ci + batchSize < Len(citems)
  /\ cpc = "done" => ci + batchSize >= Len(citems)

\* C29: convertToSonarrFormat takes its batches one after another: no
\* resolution of a batch starts before every resolution of the batch before it
\* has settled and its records are appended; the pause lies between every two
\* consecutive batches, and none follows the last batch.
C29_BatchesOneAfterAnother ==
  [][/\ BatchesInSequence
     /\ BatchesInSequence'
     /\ ci' > ci => (cpc = "delay" /\ cpc' = "batch" /\ ci' = ci + batchSize)
     /\ (cpc = "batch" /\ cpc' # "batch") =>
          cpc' = (IF ci + batchSize < Len(citems) THEN "delay" ELSE "done")]_vars

\* The second batch is under way with a request out, the records of the first
\* batch appended.
C29_Witness ==
  /\ cpc = "batch"
  /\ ci = batchSize
  /\ Len(cresults) > 0
  /\ \E j \in 1..Len(cres) : j > batchSize /\ cres[j].pc \in {"find", "ext"}

----------------------------------------------------------------------------
\* Claims about two resolutions of one id in one batch.

\* The items j and k are two items of one batch with one primary id.
Twins(its, j, k) ==
  /\ j # k
  /\ (j - 1) \div batchSize = (k - 1) \div batchSize
  /\ its[j].imdbId = its[k].imdbId

\* The resolution has missed the cache, got a result and stored it.
WroteCache(call) ==
  call.pc = "done" /\ ~call.hit /\ ~call.threw /\ call.result # NullResult

\* C30: of two resolutions of one uncached id in one batch, both miss the cache
\* and each has sent its own find and its own external-ids request before
\* either of them writes the cache.
C30_FourCallsBeforeCacheWrite ==
  \A j, k \in 1..Len(cres) :
    (Twins(citems, j, k) /\ WroteCache(cres[j])) =>
      (~cres[k].hit /\ cres[k].nfind = 1 /\ cres[k].next = 1)

\* What holds of the code: with the credential set, two resolutions of one id
\* in one batch read the cache alike, and when they miss each sends its own
\* find request at the start of the batch, so before either writes the cache;
\* each whose find gives a show then sends its own external-ids request,
\* whatever the cache holds by then; two that both return a result have sent
\* four requests.
C30_NoSingleFlight ==
  [][\A j, k \in 1..Len(cres') :
       Twins(citems', j, k) =>
         /\ cres'[j].hit = cres'[k].hit
         /\ (apiKeySet /\ cres'[j].pc # "idle" /\ ~cres'[j].hit) =>
              (cres'[j].nfind = 1 /\ cres'[k].nfind = 1)
         /\ (/\ Len(cres) = Len(cres')
             /\ cres[k].pc = "find"
             /\ cres'[k].pc # "find"
             /\ cres'[k].findResult # NoFind) =>
              (cres'[k].pc = "ext" /\ cres'[k].next = 1)
         /\ (WroteCache(cres'[j]) /\ WroteCache(cres'[k])) =>
              cres'[j].nfind + cres'[j].next + cres'[k].nfind + cres'[k].next = 4]_vars

\* Two resolutions of one id in one batch have both missed the cache, sent two
\* requests each and stored their result.
C30_Witness ==
  \E j, k \in 1..Len(cres) :
    /\ Twins(citems, j, k)
    /\ WroteCache(cres[j])
    /\ WroteCache(cres[k])
    /\ cres[j].nfind = 1 /\ cres[j].next = 1
    /\ cres[k].nfind = 1 /\ cres[k].next = 1

\* One of the two has stored its result while the find request of the other,
\* sent at the start of the batch, is still out.
C30_WriteBeforeTwinsRequest ==
  \E j, k \in 1..Len(cres) :
    /\ Twins(citems, j, k)
    /\ WroteCache(cres[j])
    /\ cres[k].pc = "find"
    /\ cres[k].nfind = 1
    /\ CacheGet(cache, citems[k].imdbId, now) # NullResult

----------------------------------------------------------------------------
\* Claims about the lifetime of a cache entry.

\* C31: the lifetime of a cache entry is fixed when it is written: a write sets
\* its expiry to 24h after the write, no other step moves the expiry (a read
\* that hits leaves the entry as it is), and a resolution of the id that starts
\* after the expiry is not answered from the cache and sends the find request
\* again (with the credential set).
C31_LifetimeFixedAtWrite ==
  [][/\ calls' # calls => \A s \in Slots :
          /\ (Returns(s) /\ calls'[s].result # NullResult) =>
               /\ calls[s].id \in DOMAIN cache'
               /\ cache'[calls[s].id].t = now + StdTTL
          /\ (Starts(s) /\ calls'[s].hit) => cache' = cache
          /\ (/\ Starts(s)
              /\ apiKeySet
              /\ lastOk[calls'[s].id].at # Undefined
              /\ now > lastOk[calls'[s].id].at + StdTTL) =>
               (calls'[s].pc = "find" /\ ~calls'[s].hit /\ calls'[s].nfind = 1)
     /\ cache' # cache =>
          \A k \in DOMAIN cache \cap DOMAIN cache' :
            cache'[k].t # cache[k].t =>
              \E s \in Slots :
                Returns(s) /\ calls[s].id = k /\ calls'[s].result # NullResult]_vars

\* An id was looked up and cached, one call was answered from the cache, and a
\* call made more than 24h after the write has sent the find request.
C31_Witness ==
  \E s, r \in Slots :
    /\ calls[s].pc = "done"
    /\ calls[s].hit
    /\ calls[r].pc = "find"
    /\ calls[r].id = calls[s].id
    /\ lastOk[calls[r].id].at # Undefined
    /\ now > lastOk[calls[r].id].at + StdTTL

----------------------------------------------------------------------------
\* Claims about the page fetches of fetchIMDBList.

\* The page fetches of the call that are issued and not yet answered.
FetchesInFlight == Len(fetchLog) - Len(recvLog)

\* C32: within one fetchIMDBList call at most one page fetch is in flight at
\* any time, and the fetch of the next page is issued only when the page before
\* it has arrived, its items are merged into the collection, and (from the
\* second page on) it was found to bring new ids.
C32_OneFetchAtATime ==
  [][/\ FetchesInFlight \in {0, 1}
     /\ FetchesInFlight' \in {0, 1}
     /\ (Len(fetchLog) > 0 /\ Len(fetchLog') > Len(fetchLog)) =>
          /\ Len(recvLog) = Len(fetchLog)
          /\ recvLog[Len(recvLog)] \in PageKinds
          /\ fetchLog'[Len(fetchLog')] = fetchLog[Len(fetchLog)] + 1
          /\ Ids(PageOf(recvLog[Len(recvLog)], srcSize, fetchLog[Len(fetchLog)]))
               \subseteq seenIds
          /\ seenIds = Ids(allItems)
          /\ Len(fetchLog) >= 2 => addedLast > 0]_vars

\* The fetch of the third page is out, two pages having arrived.
C32_Witness ==
  /\ fpc = "page"
  /\ Len(fetchLog) = 3
  /\ Len(recvLog) = 2
  /\ pending = 3

RequestedPage == IF Truthy(options.page) THEN options.page ELSE 1

\* The call has returned from its single-page return.
SinglePageReturn ==
  /\ fpc = "done"
  /\ ~FetchAllOf(options) \/ options.page # Undefined \/ totalPages <= 1

\* C34: in a single-page result with pagination metadata, totalPages is the
\* effective total divided by 250 and rounded up, the effective total being the
\* declared total when that is not zero and else the number of items of the
\* fetched page; currentPage is the requested page (1 when none was given);
\* hasMore is true exactly when currentPage < totalPages.
C34_SinglePageMetadata ==
  (SinglePageReturn /\ options.detailed) =>
    LET eff == IF totalItems # 0 THEN totalItems
               ELSE Len(CanonPage(srcSize, RequestedPage))
    IN /\ fresult.totalItems = eff
       /\ fresult.totalPages * ITEMS_PER_PAGE >= eff
       /\ (fresult.totalPages - 1) * ITEMS_PER_PAGE < eff
       /\ fresult.currentPage = RequestedPage
       /\ fresult.hasMore = (fresult.currentPage < fresult.totalPages)

\* A detailed call for page 2 of a list of four pages has returned with
\* hasMore set.
C34_Witness ==
  /\ SinglePageReturn
  /\ options.detailed
  /\ options.page = 2
  /\ fresult.currentPage = 2
  /\ fresult.totalPages = 4
  /\ fresult.hasMore

\* C36: in every detailed result of fetchIMDBList, 1 <= currentPage <=
\* totalPages, whatever page was asked for, whatever total the first page
\* declares and whatever the page holds.
C36_CurrentPageWithinTotal ==
  (fpc = "done" /\ options.detailed) =>
    (1 <= fresult.currentPage /\ fresult.currentPage <= fresult.totalPages)

\* What holds of the code: currentPage is at least 1, and it exceeds totalPages
\* exactly when the effective total does not reach the page asked for.
C36_UnlessTotalTooSmall ==
  (fpc = "done" /\ options.detailed) =>
    /\ 1 <= fresult.currentPage
    /\ (fresult.currentPage > fresult.totalPages) =
         (effectiveTotal <= (fresult.currentPage - 1) * ITEMS_PER_PAGE)

\* The empty list: page 1 of no pages.
C36_EmptyListCase ==
  /\ fpc = "done"
  /\ options.detailed
  /\ fresult.items = << >>
  /\ fresult.currentPage = 1
  /\ fresult.totalPages = 0

\* A page of 250 items without a declared total, asked for as page 2: page 2
\* of 1.
C36_UnknownTotalCase ==
  /\ fpc = "done"
  /\ options.detailed
  /\ totalItems = 0
  /\ Len(fresult.items) = ITEMS_PER_PAGE
  /\ fresult.currentPage = 2
  /\ fresult.totalPages = 1

----------------------------------------------------------------------------
\* Claims about the flush of the cache.

\* C35: a flush is not undone by work that began before it: an id that was
\* cached when clearCache() ran and that no resolution has been started for
\* since has no entry in the cache, every entry present after the flush being
\* written by a resolution that started after it.
C35_FlushNotUndone ==
  \A id \in flushedIds : id \notin DOMAIN cache

\* A resolution that was awaiting a request when the cache was flushed has
\* returned its result and the cache holds it, no resolution of the id having
\* started since the flush.
C35_WrittenBackCase ==
  \E s \in Slots :
    /\ calls[s].pc = "done"
    /\ ~calls[s].hit
    /\ calls[s].result # NullResult
    /\ calls[s].id \in flushedIds
    /\ CacheGet(cache, calls[s].id, now) = calls[s].result

----------------------------------------------------------------------------
\* Claims about the order of the records of convertToSonarrFormat.

\* C37: convertToSonarrFormat preserves the order of its input: the records
\* output are those of the resolved items of the settled batches at increasing
\* positions of the input, so their ImdbIds are a subsequence of the ids of
\* the input, in whatever order the resolutions of a batch return.
C37_InputOrderKept ==
  LET at == ResolvedAt(Settled)
  IN /\ Len(cresults) = Len(at)
     /\ \A k \in 1..Len(at) :
          /\ cresults[k].ImdbId = citems[at[k]].imdbId
          /\ k > 1 => at[k - 1] < at[k]

\* A call has returned a record for every one of its items, a resolution
\* having returned before the resolution of an earlier item of its batch.
C37_Witness ==
  /\ cpc = "done"
  /\ overtaken
  /\ Len(citems) >= 2
  /\ Len(cresults) = Len(citems)

----------------------------------------------------------------------------
\* Claims about the order of the aggregated list.

\* The ids of PageOf(kind, size, k), which are consecutive, as an interval.
IdsOfPage(kind, size, k) ==
  LET first == CASE kind = "canon" -> (k - 1) * ITEMS_PER_PAGE + 1
                 [] kind = "first" -> 1
                 [] kind = "overlap" ->
                      (k - 1) * ITEMS_PER_PAGE + 1 - (ITEMS_PER_PAGE \div 2)
      last == IF kind = "canon" THEN Min(size, k * ITEMS_PER_PAGE)
              ELSE first + ITEMS_PER_PAGE - 1
  IN first..last

\* The ids that the n-th fetch of the call delivered (none when it failed).
Delivered(n) ==
  IF recvLog[n] \in PageKinds
  THEN IdsOfPage(recvLog[n], srcSize, fetchLog[n])
  ELSE {}

\* The call is in its page loop or has returned from it.
Aggregating ==
  \/ fpc \in {"loop", "page", "delay"}
  \/ fpc = "done" /\ Len(allItems) > 0

\* C38: the aggregated list is in first-occurrence order: the items of page 1
\* in page order, then the not yet seen items of each later page in page
\* order; the record of an id is the one of the earliest page that delivered
\* it, and the list returned is the aggregated list up to the cap.
C38_FirstOccurrenceOrder ==
  Aggregating =>
    /\ \A k \in 1..Len(allItems) :
         /\ \A n \in 1..Len(recvLog) :
              allItems[k].imdbId \in Delivered(n) => allItems[k].from <= fetchLog[n]
         /\ \E n \in 1..Len(recvLog) :
              allItems[k].imdbId \in Delivered(n) /\ allItems[k].from = fetchLog[n]
         /\ k > 1 =>
              \/ allItems[k - 1].from < allItems[k].from
              \/ /\ allItems[k - 1].from = allItems[k].from
                 /\ allItems[k - 1].imdbId < allItems[k].imdbId
    /\ options.maxItems = Undefined =>
         \A n \in 1..Len(recvLog) : Delivered(n) \subseteq Ids(allItems)
    /\ fpc = "done" => fresult.items = FinalItems(allItems, options.maxItems)

\* A call has returned a list in which items of page 1 are followed by the new
\* items of a page that repeated ids of page 1.
C38_Witness ==
  /\ fpc = "done"
  /\ \E n \in 1..Len(recvLog) :
       /\ recvLog[n] = "overlap"
       /\ \E k \in 1..Len(fresult.items) :
            /\ k > ITEMS_PER_PAGE
            /\ fresult.items[k].from = fetchLog[n]
       /\ \E k \in 1..Len(fresult.items) :
            /\ fresult.items[k].imdbId \in Delivered(n)
            /\ fresult.items[k].from < fetchLog[n]

----------------------------------------------------------------------------
\* Claims about the anchor scan of parseIMDBListPage.

\* C39: the anchor scan never modifies or replaces an item that the blob walk
\* has collected: in the blob walk and the anchor scan every item collected
\* keeps its place, title, contentType (unknown too) and year; an item changes
\* in the linked-data pass only.
C39_AnchorsLeaveItems ==
  [][\A k \in 1..Len(items) :
       /\ k <= Len(items')
       /\ ppc \in {"blob", "anchors"} => items'[k] = items[k]
       /\ items'[k] # items[k] => ppc = "jsonld"]_vars

\* The page is parsed; an anchor named the id of an item of the blob that had
\* no type, and the item is as the blob walk left it.
C39_Witness ==
  /\ ppc = "done"
  /\ anchorMetBlobItem
  /\ \E k \in 1..Len(items) :
       /\ items[k].title = "Blob title"
       /\ items[k].type = "unknown"
       /\ items[k].year = 2020

----------------------------------------------------------------------------
\* Claims about the termination of fetchIMDBList.

\* The pages fetched are all different.
NoPageFetchedTwice ==
  \A i, j \in 1..Len(fetchLog) : i # j => fetchLog[i] # fetchLog[j]

\* C40: in fetch-all mode fetchIMDBList returns whenever every page fetch
\* completes; totalPages is fixed from the first page on; each iteration of the
\* loop stops the loop or advances to the next page; the call issues at most
\* max(1, totalPages) page fetches and fetches no page twice.
C40_FetchAllTerminates ==
  /\ (fpc = "first" /\ FetchAllMode(options)) ~> (fpc \in {"done", "failed"})
  /\ [][/\ fpc \in {"loop", "page", "delay"} => totalPages' = totalPages
        /\ fpc = "page" =>
              \/ fpc' = "done"
              \/ fpc' = "delay" /\ currentPage' = currentPage + 1]_vars
  /\ [](/\ Len(fetchLog) <= (IF totalPages > 1 THEN totalPages ELSE 1)
        /\ NoPageFetchedTwice)

\* A fetch-all call has returned after it fetched every page of a list of
\* several pages, and another one after a page failed.
C40_Witness ==
  /\ fpc = "done"
  /\ FetchAllMode(options)
  /\ totalPages >= 3
  /\ \/ Len(fetchLog) = totalPages /\ recvLog[Len(recvLog)] \notin FetchFailures
     \/ Len(fetchLog) = 2 /\ recvLog[2] \in FetchFailures

====
